---- MODULE Spec2Model ----
(***************************************************************************)
(* A model of the AmiFi transaction service: the pattern extractor         *)
(* (src/src/parsers.py), the goal impact engine (src/src/goal_impact.py)   *)
(* and the idempotent transaction store (src/src/database.py).             *)
(*                                                                         *)
(* Text is a sequence of atoms.  An atom is an indivisible chunk of        *)
(* characters: one digit, one punctuation character, one space, or one     *)
(* run of letters.  Regular expressions are sequences of items matched     *)
(* against atoms by a backtracking matcher with Python's priorities.       *)
(* Money is counted in hundredths (paise); other reals are exact           *)
(* fractions [n, d].                                                       *)
(***************************************************************************)
EXTENDS Integers, Sequences, FiniteSets, TLC

VARIABLES
    text,       \* extractor input: the raw message
    channel,    \* extractor input: "sms" or "email"
    outcome,    \* what parse_message did: pending, fact, none or raise
    txn,        \* goal engine input: the ParsedTransaction
    category,   \* goal engine input: ClassificationResult.category
    goals,      \* goal engine: the registry, in dict insertion order
    now,        \* goal engine: datetime.now(), in half days
    impacts,    \* goal engine output: the list of GoalImpact
    evaluated,  \* goal engine: calculate_transaction_impact has returned
    rows,       \* store: the transactions table, in insertion order
    uniqueHash, \* store: whether the schema declares transactions.hash UNIQUE
    uuids,      \* store: number of uuid4 values drawn so far
    pc,         \* store: each caller's position in upsert_transaction
    req,        \* store: each caller's transaction_data
    newId,      \* store: each caller's freshly drawn transaction_id
    log,        \* store: the finished calls and what each returned
    tflite_interface,   \* classifier: the TFLiteInterface instance
    constructed,        \* classifier: TFLiteInterface.__init__ has returned
    parsed_txn,         \* classifier input: the ParsedTransaction
    classification,     \* classifier output: the ClassificationResult
    classified,         \* classifier: classify_transaction has returned
    feature_map,        \* classifier: the features _extract_features built
    responses,          \* service: the requests answered so far, in order
    goal_impact_rows    \* service: the goal_impacts table

extractVars == <<text, channel, outcome>>
goalVars == <<txn, category, goals, now, impacts, evaluated>>
storeVars == <<rows, uniqueHash, uuids, pc, req, newId, log>>
classVars ==
    <<tflite_interface, constructed, parsed_txn, classification, classified,
      feature_map>>
serviceVars == <<responses, goal_impact_rows>>
vars == <<text, channel, outcome, txn, category, goals, now, impacts,
          evaluated, rows, uniqueHash, uuids, pc, req, newId, log,
          tflite_interface, constructed, parsed_txn, classification,
          classified, feature_map,
          responses, goal_impact_rows>>

----------------------------------------------------------------------------
(* Atoms *)

Digits == {"0", "1", "2", "3", "4", "5", "6", "7", "8", "9"}

DigitVal ==
    [c \in Digits |->
        CASE c = "0" -> 0 [] c = "1" -> 1 [] c = "2" -> 2 [] c = "3" -> 3
          [] c = "4" -> 4 [] c = "5" -> 5 [] c = "6" -> 6 [] c = "7" -> 7
          [] c = "8" -> 8 [] c = "9" -> 9]

\* str.lower() on the letter atoms the model's messages use
LowerTab ==
    [a \in {"INR", "HDFC", "Credit", "Card", "XX", "AMAZON", "Amazon",
            "Netflix", "UPI", "Ref", "AC", "ICICI", "NEFT", "Reminder",
            "REMINDER", "Txn", "Sep", "ABCD", "XYZ", "Avl", "Lmt", "MSEB",
            "SPENT", "ON", "AT", "Your", "Dear", "Customer", "Hello", "Rs",
            "PAYMENT", "BigMall", "Cafe", "Prime", "Bill"} |->
        CASE a = "INR" -> "inr" [] a = "HDFC" -> "hdfc"
          [] a = "Credit" -> "credit" [] a = "Card" -> "card"
          [] a = "XX" -> "xx" [] a = "AMAZON" -> "amazon"
          [] a = "Amazon" -> "amazon" [] a = "Netflix" -> "netflix"
          [] a = "UPI" -> "upi" [] a = "Ref" -> "ref" [] a = "AC" -> "ac"
          [] a = "ICICI" -> "icici" [] a = "NEFT" -> "neft"
          [] a = "Reminder" -> "reminder" [] a = "REMINDER" -> "reminder"
          [] a = "Txn" -> "txn" [] a = "Sep" -> "sep" [] a = "ABCD" -> "abcd"
          [] a = "XYZ" -> "xyz" [] a = "Avl" -> "avl" [] a = "Lmt" -> "lmt"
          [] a = "MSEB" -> "mseb" [] a = "SPENT" -> "spent"
          [] a = "ON" -> "on" [] a = "AT" -> "at" [] a = "Your" -> "your"
          [] a = "Dear" -> "dear" [] a = "Customer" -> "customer"
          [] a = "Hello" -> "hello" [] a = "Rs" -> "rs"
          [] a = "PAYMENT" -> "payment" [] a = "BigMall" -> "bigmall"
          [] a = "Cafe" -> "cafe" [] a = "Prime" -> "prime"
          [] a = "Bill" -> "bill"]

LowerAtom(a) == IF a \in DOMAIN LowerTab THEN LowerTab[a] ELSE a

Lower(s) == [i \in 1..Len(s) |-> LowerAtom(s[i])]

Punctuation == {" ", ",", ".", "-", ":", "/"}

\* a letter atom written in capitals only
IsUpperAtom(a) ==
    a \in {"INR", "HDFC", "XX", "AMAZON", "UPI", "AC", "ICICI", "NEFT",
           "REMINDER", "ABCD", "XYZ", "MSEB", "SPENT", "ON", "AT", "PAYMENT"}

IsLetterAtom(a) == a \notin Digits /\ a \notin Punctuation

----------------------------------------------------------------------------
(* Regular expressions: re.search over atoms *)
\* a run of literal characters
Lit(atoms) ==
    <<[k |-> "lit", a |-> atoms, cls |-> "", lo |-> 0, hi |-> 0,
       lazy |-> FALSE]>>

\* cls{lo,hi}, greedy; hi = -1 is unbounded
Rep(cls, lo, hi) ==
    <<[k |-> "rep", a |-> <<>>, cls |-> cls, lo |-> lo, hi |-> hi,
       lazy |-> FALSE]>>

\* cls*?
LazyStar(cls) ==
    <<[k |-> "rep", a |-> <<>>, cls |-> cls, lo |-> 0, hi |-> -1,
       lazy |-> TRUE]>>

GroupOpen ==
    <<[k |-> "open", a |-> <<>>, cls |-> "", lo |-> 0, hi |-> 0,
       lazy |-> FALSE]>>

GroupClose ==
    <<[k |-> "close", a |-> <<>>, cls |-> "", lo |-> 0, hi |-> 0,
       lazy |-> FALSE]>>

Group(items) == GroupOpen \o items \o GroupClose

InClass(cls, a, ignorecase) ==
    CASE cls = "digit" -> a \in Digits                      \* \d
      [] cls = "digit_comma" -> a \in Digits \cup {","}     \* [\d,]
      [] cls = "dot" -> a = "."                             \* \.
      [] cls = "word" -> a \in Digits \/ IsLetterAtom(a)    \* \w
      [] cls = "upper_digit" ->                             \* [A-Z0-9]
            \/ a \in Digits
            \/ IsLetterAtom(a) /\ (ignorecase \/ IsUpperAtom(a))
      [] cls = "any" -> TRUE                                \* .

SameAtom(a, b, ignorecase) ==
    IF ignorecase THEN LowerAtom(a) = LowerAtom(b) ELSE a = b

\* the literal run lit stands in s at position i
LitAt(lit, s, i, ignorecase) ==
    /\ i + Len(lit) - 1 <= Len(s)
    /\ \A j \in 1..Len(lit) : SameAtom(s[i + j - 1], lit[j], ignorecase)

NoMatch == [ok |-> FALSE, caps |-> <<>>]

\* how many atoms from position i on are in cls, at most hi of them
RunLen(cls, s, i, hi, ignorecase) ==
    LET limit == IF hi < 0 \/ i + hi - 1 > Len(s) THEN Len(s) - i + 1 ELSE hi
        stops == {n \in 0..limit :
                    n = limit \/ ~InClass(cls, s[i + n], ignorecase)}
    IN CHOOSE n \in stops : \A m \in stops : n <= m

RECURSIVE MatchAt(_, _, _, _, _, _)

\* match items k.. against s from position i; caps holds <<start, end>> of
\* the groups opened so far, end = 0 while a group is open.  A repetition
\* takes the largest count (greedy) or the smallest (lazy) with which the
\* rest of the pattern matches, which is the match backtracking finds first.
MatchAt(items, k, s, i, caps, ignorecase) ==
    IF k > Len(items) THEN [ok |-> TRUE, caps |-> caps]
    ELSE LET it == items[k] IN
        CASE it.k = "lit" ->
                IF LitAt(it.a, s, i, ignorecase)
                THEN MatchAt(items, k + 1, s, i + Len(it.a), caps, ignorecase)
                ELSE NoMatch
          [] it.k = "open" ->
                MatchAt(items, k + 1, s, i, Append(caps, <<i, 0>>), ignorecase)
          [] it.k = "close" ->
                MatchAt(items, k + 1, s, i,
                        [caps EXCEPT ![Len(caps)] = <<caps[Len(caps)][1], i>>],
                        ignorecase)
          [] it.k = "rep" ->
                LET most == RunLen(it.cls, s, i, it.hi, ignorecase)
                    tries == {[n |-> n,
                               r |-> MatchAt(items, k + 1, s, i + n, caps,
                                             ignorecase)] :
                                n \in it.lo..most}
                    good == {t \in tries : t.r.ok}
                IN IF good = {} THEN NoMatch
                   ELSE (CHOOSE t \in good : \A u \in good :
                            IF it.lazy THEN t.n <= u.n ELSE t.n >= u.n).r

\* re.search(items, s, flags): the leftmost match, or NoMatch
Search(items, s, ignorecase) ==
    LET tries == {[i |-> i, r |-> MatchAt(items, 1, s, i, <<>>, ignorecase)] :
                    i \in 1..(Len(s) + 1)}
        good == {t \in tries : t.r.ok}
    IN IF good = {} THEN NoMatch
       ELSE (CHOOSE t \in good : \A u \in good : t.i <= u.i).r

\* match.groups(): the captured substrings
Groups(m, s) ==
    [g \in 1..Len(m.caps) |-> SubSeq(s, m.caps[g][1], m.caps[g][2] - 1)]

----------------------------------------------------------------------------
(* Values *)

None == [some |-> FALSE, v |-> <<>>]
Some(x) == [some |-> TRUE, v |-> x]

\* exact fractions, d > 0
Frac(n, d) == [n |-> n, d |-> d]
FEq(x, y) == IF x.d = y.d THEN x.n = y.n ELSE x.n * y.d = y.n * x.d
FLt(x, y) == IF x.d = y.d THEN x.n < y.n ELSE x.n * y.d < y.n * x.d
FLe(x, y) == IF x.d = y.d THEN x.n <= y.n ELSE x.n * y.d <= y.n * x.d
FNeg(x) == Frac(-x.n, x.d)
FMin(x, y) == IF FLe(x, y) THEN x ELSE y
FMax(x, y) == IF FLe(x, y) THEN y ELSE x

\* s.replace(c, '')
Remove(s, c) == SelectSeq(s, LAMBDA a : a # c)

RECURSIVE StripLeft(_)
StripLeft(s) == IF s # <<>> /\ Head(s) = " " THEN StripLeft(Tail(s)) ELSE s

RECURSIVE StripRight(_)
StripRight(s) ==
    IF s # <<>> /\ s[Len(s)] = " " THEN StripRight(SubSeq(s, 1, Len(s) - 1))
    ELSE s

\* str.strip()
Strip(s) == StripRight(StripLeft(s))

\* sub in s
Contains(s, sub) ==
    \E i \in 1..(Len(s) - Len(sub) + 1) : SubSeq(s, i, i + Len(sub) - 1) = sub

RECURSIVE Split(_, _)
\* s.split(sep)
Split(s, sep) ==
    IF \A i \in 1..Len(s) : s[i] # sep THEN <<s>>
    ELSE LET i == CHOOSE j \in 1..Len(s) :
                      s[j] = sep /\ \A h \in 1..(j - 1) : s[h] # sep
         IN <<SubSeq(s, 1, i - 1)>> \o Split(SubSeq(s, i + 1, Len(s)), sep)

AllDigits(s) == \A i \in 1..Len(s) : s[i] \in Digits

RECURSIVE DigitsValue(_)
DigitsValue(s) ==
    IF s = <<>> THEN 0
    ELSE DigitsValue(SubSeq(s, 1, Len(s) - 1)) * 10 + DigitVal[s[Len(s)]]

\* int(s): ValueError unless s is one or more digits
ParseInt(s) ==
    IF s # <<>> /\ AllDigits(s) THEN [ok |-> TRUE, v |-> DigitsValue(s)]
    ELSE [ok |-> FALSE, v |-> 0]

\* float(s) for s made of digits and dots, in hundredths: ValueError unless
\* s is digits, optionally one dot, digits, with at least one digit.  Digits
\* after the second decimal place are below the model's resolution.
ParseFloat(s) ==
    LET parts == Split(s, ".")
        whole == parts[1]
        frac == IF Len(parts) = 2 THEN parts[2] ELSE <<>>
        cents == SubSeq(frac \o <<"0", "0">>, 1, 2)
    IN IF /\ Len(parts) <= 2
          /\ AllDigits(whole) /\ AllDigits(frac)
          /\ Len(whole) + Len(frac) > 0
       THEN [ok |-> TRUE, v |-> DigitsValue(whole) * 100 + DigitsValue(cents)]
       ELSE [ok |-> FALSE, v |-> 0]

----------------------------------------------------------------------------
(* src/src/parsers.py *)

Amount == Rep("digit_comma", 1, -1) \o Rep("dot", 0, 1) \o Rep("digit", 0, -1)
Date == Rep("digit", 2, 2) \o Lit(<<"-">>) \o Rep("digit", 2, 2)
            \o Lit(<<"-">>) \o Rep("digit", 4, 4)

\* INR ([\d,]+\.?\d*) spent on.*?(\w+ Credit Card) (XX\d+) at (.*?)
\*     on (\d{2}-\d{2}-\d{4}) (\d{4})
CardSpendRegex ==
    Lit(<<"INR", " ">>) \o Group(Amount)
        \o Lit(<<" ", "spent", " ", "on">>) \o LazyStar("any")
        \o Group(Rep("word", 1, -1) \o Lit(<<" ", "Credit", " ", "Card">>))
        \o Lit(<<" ">>) \o Group(Lit(<<"XX">>) \o Rep("digit", 1, -1))
        \o Lit(<<" ", "at", " ">>) \o Group(LazyStar("any"))
        \o Lit(<<" ", "on", " ">>) \o Group(Date)
        \o Lit(<<" ">>) \o Group(Rep("digit", 4, 4))

\* INR ([\d,]+\.?\d*) credited to AC (\d+) (\w+) via NEFT
\*     on (\d{2}-\d{2}-\d{4}) (\d{4})\. Ref ([A-Z0-9]+)
NeftCreditRegex ==
    Lit(<<"INR", " ">>) \o Group(Amount)
        \o Lit(<<" ", "credited", " ", "to", " ", "AC", " ">>)
        \o Group(Rep("digit", 1, -1)) \o Lit(<<" ">>)
        \o Group(Rep("word", 1, -1))
        \o Lit(<<" ", "via", " ", "NEFT", " ", "on", " ">>) \o Group(Date)
        \o Lit(<<" ">>) \o Group(Rep("digit", 4, 4))
        \o Lit(<<".", " ", "Ref", " ">>) \o Group(Rep("upper_digit", 1, -1))

\* INR ([\d,]+\.?\d*) paid to (.*?) via UPI Ref ([A-Z0-9]+)
\*     on (\d{2}-\d{2}-\d{4}) (\d{4})
UpiPaymentRegex ==
    Lit(<<"INR", " ">>) \o Group(Amount)
        \o Lit(<<" ", "paid", " ", "to", " ">>) \o Group(LazyStar("any"))
        \o Lit(<<" ", "via", " ", "UPI", " ", "Ref", " ">>)
        \o Group(Rep("upper_digit", 1, -1))
        \o Lit(<<" ", "on", " ">>) \o Group(Date)
        \o Lit(<<" ">>) \o Group(Rep("digit", 4, 4))

\* Reminder.*?payment of INR ([\d,]+) due on (\d{2}-\d{2}-\d{4})
\*     for (\w+) (XX\d+)
BillReminderRegex ==
    Lit(<<"Reminder">>) \o LazyStar("any")
        \o Lit(<<"payment", " ", "of", " ", "INR", " ">>)
        \o Group(Rep("digit_comma", 1, -1))
        \o Lit(<<" ", "due", " ", "on", " ">>) \o Group(Date)
        \o Lit(<<" ", "for", " ">>) \o Group(Rep("word", 1, -1))
        \o Lit(<<" ">>) \o Group(Lit(<<"XX">>) \o Rep("digit", 1, -1))

\* SMSParser.patterns
SmsPatterns ==
    << [regex |-> CardSpendRegex, type |-> "debit", confidence |-> Frac(95, 100),
        fields |-> << <<"amount">>, <<"account", "_", "type">>,
                      <<"account", "_", "ref">>, <<"merchant">>, <<"date">>,
                      <<"time">> >>],
       [regex |-> NeftCreditRegex, type |-> "credit",
        confidence |-> Frac(95, 100),
        fields |-> << <<"amount">>, <<"account", "_", "ref">>, <<"bank">>,
                      <<"date">>, <<"time">>, <<"reference">> >>],
       [regex |-> UpiPaymentRegex, type |-> "debit",
        confidence |-> Frac(90, 100),
        fields |-> << <<"amount">>, <<"merchant">>, <<"reference">>,
                      <<"date">>, <<"time">> >>],
       [regex |-> BillReminderRegex, type |-> "bill",
        confidence |-> Frac(85, 100),
        fields |-> << <<"amount">>, <<"due", "_", "date">>, <<"bank">>,
                      <<"account", "_", "ref">> >>] >>

\* interest INR ([\d,]+\.?\d*) has been credited on (\d+ \w+)
InterestCreditRegex ==
    Lit(<<"interest", " ", "INR", " ">>) \o Group(Amount)
        \o Lit(<<" ", "has", " ", "been", " ", "credited", " ", "on", " ">>)
        \o Group(Rep("digit", 1, -1) \o Lit(<<" ">>) \o Rep("word", 1, -1))

\* INR ([\d,]+\.?\d*) paid to (\w+)\. Txn ([A-Z0-9]+) on (\d+ \w+ \d+)
EmailPaymentRegex ==
    Lit(<<"INR", " ">>) \o Group(Amount)
        \o Lit(<<" ", "paid", " ", "to", " ">>) \o Group(Rep("word", 1, -1))
        \o Lit(<<".", " ", "Txn", " ">>) \o Group(Rep("upper_digit", 1, -1))
        \o Lit(<<" ", "on", " ">>)
        \o Group(Rep("digit", 1, -1) \o Lit(<<" ">>) \o Rep("word", 1, -1)
                    \o Lit(<<" ">>) \o Rep("digit", 1, -1))

\* EmailParser.patterns
EmailPatterns ==
    << [regex |-> InterestCreditRegex, type |-> "credit",
        confidence |-> Frac(90, 100),
        fields |-> << <<"amount">>, <<"date">> >>],
       [regex |-> EmailPaymentRegex, type |-> "debit",
        confidence |-> Frac(85, 100),
        fields |-> << <<"amount">>, <<"merchant">>, <<"reference">>,
                      <<"date">> >>] >>

\* INR ([\d,]+\.?\d*)
GenericAmountRegex == Lit(<<"INR", " ">>) \o Group(Amount)

\* datetime.now() as a timestamp value
NowStamp == [parsed |-> FALSE, year |-> 0, month |-> 0, day |-> 0,
             hour |-> 0, minute |-> 0]

DaysInMonth(y, m) ==
    CASE m \in {1, 3, 5, 7, 8, 10, 12} -> 31
      [] m \in {4, 6, 9, 11} -> 30
      [] m = 2 -> IF (y % 4 = 0 /\ y % 100 # 0) \/ y % 400 = 0 THEN 29 ELSE 28

\* a datetime constructor that takes any numbers
AnyDateTime(y, m, d, h, mi) == TRUE

\* datetime(year, month, day, hour, minute) raises ValueError unless valid
ValidDateTime(y, m, d, h, mi) ==
    /\ y \in 1..9999 /\ m \in 1..12
    /\ d >= 1 /\ d <= DaysInMonth(y, m)
    /\ h \in 0..23 /\ mi \in 0..59

\* next((i for i, f in enumerate(fields) if sub in f), None); 0 is None
FirstFieldWith(fields, sub) ==
    IF \E i \in 1..Len(fields) : Contains(fields[i], sub)
    THEN CHOOSE i \in 1..Len(fields) :
            /\ Contains(fields[i], sub)
            /\ \A j \in 1..(i - 1) : ~Contains(fields[j], sub)
    ELSE 0

\* SMSParser._parse_timestamp
ParseTimestamp(groups, fields) ==
    LET date_idx == FirstFieldWith(fields, <<"date">>)
        time_idx == FirstFieldWith(fields, <<"time">>)
    IN IF date_idx = 0 \/ time_idx = 0 THEN NowStamp
       ELSE LET parts == Split(groups[date_idx], "-")
                time_str == groups[time_idx]
            IN IF Len(parts) # 3 THEN NowStamp
               ELSE LET hour == ParseInt(SubSeq(time_str, 1, 2))
                        minute == ParseInt(SubSeq(time_str, 3, Len(time_str)))
                        year == ParseInt(parts[3])
                        month == ParseInt(parts[2])
                        day == ParseInt(parts[1])
                    IN IF /\ hour.ok /\ minute.ok /\ year.ok /\ month.ok
                          /\ day.ok
                          /\ ValidDateTime(year.v, month.v, day.v, hour.v,
                                           minute.v)
                       THEN [parsed |-> TRUE, year |-> year.v,
                             month |-> month.v, day |-> day.v,
                             hour |-> hour.v, minute |-> minute.v]
                       ELSE NowStamp

\* SMSParser._extract_field
ExtractField(groups, fields, target) ==
    IF \E i \in 1..Len(fields) : fields[i] = target
    THEN LET idx == CHOOSE i \in 1..Len(fields) :
                        fields[i] = target /\ \A j \in 1..(i - 1) : fields[j] # target
         IN IF idx <= Len(groups) THEN Some(groups[idx]) ELSE None
    ELSE None

NoFields == <<>>

ParsedTransaction(amount, type, timestamp, account_ref, merchant, reference, confidence, raw_message, chan, parser, pattern_matched) ==
    [amount |-> amount, currency |-> "INR", transaction_type |-> type,
     timestamp |-> timestamp, account_ref |-> account_ref,
     merchant |-> merchant, reference |-> reference,
     confidence |-> confidence, raw_message |-> raw_message,
     channel |-> chan,
     meta |-> [parser |-> parser, pattern_matched |-> pattern_matched]]

NoTransaction ==
    ParsedTransaction(0, "", NowStamp, None, None, None, Frac(0, 1), <<>>, "",
                      "", NoFields)

\* what a call did: returned a fact, returned None, or raised
Returned(fact) == [tag |-> "fact", fact |-> fact]
ReturnedNone == [tag |-> "none", fact |-> NoTransaction]
Raised == [tag |-> "raise", fact |-> NoTransaction]
Pending == [tag |-> "pending", fact |-> NoTransaction]

\* SMSParser._extract_transaction_data
ExtractTransactionData(m, pattern_info, raw_message) ==
    LET groups == Groups(m, raw_message)
        fields == pattern_info.fields
        amount == ParseFloat(Remove(groups[1], ","))
    IN IF ~amount.ok THEN Raised
       ELSE Returned(ParsedTransaction(
                amount.v, pattern_info.type, ParseTimestamp(groups, fields),
                ExtractField(groups, fields, <<"account", "_", "ref">>),
                ExtractField(groups, fields, <<"merchant">>),
                ExtractField(groups, fields, <<"reference">>),
                pattern_info.confidence, raw_message, "sms", "regex_pattern",
                fields))

\* the loop letting the last matching pattern win
LastMatching(patterns, s) ==
    IF \E i \in 1..Len(patterns) : Search(patterns[i].regex, s, TRUE).ok
    THEN CHOOSE i \in 1..Len(patterns) :
            /\ Search(patterns[i].regex, s, TRUE).ok
            /\ \A j \in (i + 1)..Len(patterns) :
                    ~Search(patterns[j].regex, s, TRUE).ok
    ELSE 0

\* the loop of parse_message: the index of the first pattern that matches,
\* 0 when none does
FirstMatching(patterns, s) ==
    IF \E i \in 1..Len(patterns) : Search(patterns[i].regex, s, TRUE).ok
    THEN CHOOSE i \in 1..Len(patterns) :
            /\ Search(patterns[i].regex, s, TRUE).ok
            /\ \A j \in 1..(i - 1) : ~Search(patterns[j].regex, s, TRUE).ok
    ELSE 0

\* SMSParser.parse_message
SmsParseMessage(raw) ==
    LET sms_text == Strip(raw)
        i == FirstMatching(SmsPatterns, sms_text)
    IN IF i # 0
       THEN ExtractTransactionData(Search(SmsPatterns[i].regex, sms_text, TRUE),
                                   SmsPatterns[i], sms_text)
       ELSE LET amount_match == Search(GenericAmountRegex, sms_text, FALSE) IN
            IF amount_match.ok
            THEN LET amount == ParseFloat(
                        Remove(Groups(amount_match, sms_text)[1], ","))
                 IN IF ~amount.ok THEN Raised
                    ELSE Returned(ParsedTransaction(
                            amount.v, "other", NowStamp, None, None, None,
                            Frac(3, 10), sms_text, "sms", "generic_fallback",
                            NoFields))
            ELSE ReturnedNone

\* EmailParser._extract_email_transaction
ExtractEmailTransaction(m, pattern_info, raw_message) ==
    LET groups == Groups(m, raw_message)
        amount == ParseFloat(Remove(groups[1], ","))
    IN IF ~amount.ok THEN Raised
       ELSE Returned(ParsedTransaction(
                amount.v, pattern_info.type, NowStamp, None,
                IF Len(groups) > 1 THEN Some(groups[2]) ELSE None,
                IF Len(groups) > 2 THEN Some(groups[3]) ELSE None,
                pattern_info.confidence, raw_message, "email", "email_regex",
                NoFields))

\* EmailParser.parse_message
EmailParseMessage(raw) ==
    LET email_text == Strip(raw)
        i == FirstMatching(EmailPatterns, email_text)
    IN IF i # 0
       THEN ExtractEmailTransaction(
                Search(EmailPatterns[i].regex, email_text, TRUE),
                EmailPatterns[i], email_text)
       ELSE ReturnedNone

\* extract(text, channel): the parser main.py picks for the channel
Extract(raw, chan) ==
    IF chan = "sms" THEN SmsParseMessage(raw) ELSE EmailParseMessage(raw)

----------------------------------------------------------------------------
(* src/src/goal_impact.py *)

\* (deadline - datetime.now()).days: instants count half days, and
\* timedelta.days is the floor of the difference in days
DaysBetween(deadline, instant) == (deadline - instant) \div 2

RECURSIVE NatDigits(_)
NatDigits(n) ==
    LET d == CHOOSE c \in Digits : DigitVal[c] = n % 10 IN
    IF n < 10 THEN <<d>> ELSE Append(NatDigits(n \div 10), d)

\* f"{amount:.2f}" of an amount in hundredths
Format2f(amount) ==
    (IF amount < 0 THEN <<"-">> ELSE <<>>)
        \o LET a == IF amount < 0 THEN -amount ELSE amount IN
           NatDigits(a \div 100) \o <<".">>
               \o NatDigits((a % 100) \div 10) \o NatDigits(a % 10)

\* f"{x:.0%}" of a fraction x >= 0, ties to the even percentage
FormatPercent(x) ==
    LET r == x.n % x.d
        whole == 100 * (x.n \div x.d) + (100 * r) \div x.d
        half == (200 * r) \div x.d - 2 * ((100 * r) \div x.d)
        exact == (200 * r) % x.d = 0
        up == half = 1 /\ (~exact \/ whole % 2 = 1)
    IN NatDigits(IF up THEN whole + 1 ELSE whole) \o <<"%">>

\* The message literals are written without their emoji prefixes and with
\* "Rs" for the rupee sign.

\* Python's None, False and True as the value of an and-chain
PyNone == "None"
PyBool(b) == IF b THEN "True" ELSE "False"
Truthy(x) == x = "True"

GoalImpact(goal, impact_score, message, impact_amount, new_progress, is_goal_achieved, is_goal_at_risk) ==
    [goal_id |-> goal.goal_id, goal_name |-> goal.name,
     impact_score |-> impact_score, message |-> message,
     impact_amount |-> impact_amount, new_progress |-> new_progress,
     is_goal_achieved |-> is_goal_achieved,
     is_goal_at_risk |-> is_goal_at_risk]

\* a relevance check that lets every goal through
AlwaysRelevant(transaction, cat, goal) == TRUE

\* GoalImpactCalculator._is_transaction_relevant
IsTransactionRelevant(transaction, cat, goal) ==
    IF transaction.transaction_type \in goal.categories THEN TRUE
    ELSE IF cat \in goal.categories THEN TRUE
    ELSE IF goal.goal_type = "bill_payment"
         THEN IF Contains(Lower(transaction.raw_message), <<"reminder">>)
              THEN TRUE
              ELSE goal.goal_id = "cc-bill"
                      /\ Contains(Lower(transaction.raw_message),
                                  <<"credit", " ", "card">>)
         ELSE FALSE

\* the score without its cap
SavingsCreditScoreUncapped(amount) == Frac(amount, 5000 * 100)

\* the debit score with its sign left out
SavingsDebitScoreUnsigned(amount) == FMin(Frac(6, 10), Frac(amount, 5000 * 100))

\* min(0.8, transaction.amount / 5000)
SavingsCreditScore(amount) == FMin(Frac(8, 10), Frac(amount, 5000 * 100))

\* -min(0.6, transaction.amount / 5000)
SavingsDebitScore(amount) == FNeg(FMin(Frac(6, 10), Frac(amount, 5000 * 100)))

\* GoalImpactCalculator._calculate_savings_impact
CalculateSavingsImpact(transaction, cat, goal, instant) ==
    LET amount == transaction.amount
        kind == transaction.transaction_type
        impact_amount ==
            CASE kind = "credit" -> amount
              [] kind = "debit" -> -amount
              [] OTHER -> 0
        impact_score ==
            CASE kind = "credit" -> SavingsCreditScore(amount)
              [] kind = "debit" -> SavingsDebitScore(amount)
              [] OTHER -> Frac(0, 1)
        message ==
            CASE kind = "credit" ->
                    <<"Great! Rs">> \o Format2f(amount)
                        \o <<" added to your savings progress">>
              [] kind = "debit" ->
                    IF cat = "shopping" /\ amount > 1000 * 100
                    THEN <<"High shopping expense of Rs">> \o Format2f(amount)
                            \o <<" impacts your savings goal">>
                    ELSE <<"Rs">> \o Format2f(amount)
                            \o <<" spent - consider if this aligns with your savings target">>
              [] OTHER -> <<>>
        new_amount == goal.current_amount + impact_amount
        new_progress ==
            FMin(Frac(1, 1),
                 FMax(Frac(0, 1), Frac(new_amount, goal.target_amount)))
        is_at_risk ==
            IF ~goal.deadline.some THEN PyNone
            ELSE PyBool(/\ DaysBetween(goal.deadline.v, instant) < 30
                        /\ FLt(new_progress, Frac(5, 10)))
    IN GoalImpact(goal, impact_score, message, impact_amount, new_progress,
                  FLe(Frac(1, 1), new_progress), is_at_risk)

\* the progress without max(0, ...) around the remaining amount
BillProgressNoFloor(goal, impact_amount) ==
    Frac(-impact_amount, goal.target_amount)

\* 1.0 - (remaining_amount / goal.target_amount)
BillProgress(goal, impact_amount) ==
    LET remaining_amount ==
            IF goal.target_amount + impact_amount > 0
            THEN goal.target_amount + impact_amount ELSE 0
    IN Frac(goal.target_amount - remaining_amount, goal.target_amount)

\* GoalImpactCalculator._calculate_bill_impact
CalculateBillImpact(transaction, cat, goal, instant) ==
    LET amount == transaction.amount
        reminder == Contains(Lower(transaction.raw_message), <<"reminder">>)
        payment == /\ ~reminder
                   /\ transaction.transaction_type = "credit"
                   /\ goal.goal_id = "cc-bill"
        impact_score ==
            CASE reminder -> Frac(-9, 10)
              [] payment -> Frac(8, 10)
              [] OTHER -> Frac(0, 1)
        base ==
            CASE reminder ->
                    <<"Bill payment reminder: Rs">> \o Format2f(amount)
                        \o <<" due soon!">>
              [] payment ->
                    <<"Rs">> \o Format2f(amount)
                        \o <<" payment towards your credit card bill">>
              [] OTHER -> <<>>
        impact_amount ==
            CASE reminder -> amount
              [] payment -> -amount
              [] OTHER -> 0
        new_progress == BillProgress(goal, impact_amount)
        is_at_risk ==
            IF ~goal.deadline.some THEN PyNone
            ELSE PyBool(/\ DaysBetween(goal.deadline.v, instant) <= 5
                        /\ FLt(new_progress, Frac(8, 10)))
        message ==
            IF Truthy(is_at_risk)
            THEN base \o <<" - Due date is approaching!">>
            ELSE base
    IN GoalImpact(goal, impact_score, message, impact_amount, new_progress,
                  FLe(Frac(1, 1), new_progress), is_at_risk)

NoImpact ==
    [goal_id |-> "", goal_name |-> "", impact_score |-> Frac(0, 1),
     message |-> <<>>, impact_amount |-> 0, new_progress |-> Frac(0, 1),
     is_goal_achieved |-> FALSE, is_goal_at_risk |-> PyNone]

\* a function returning None instead of a GoalImpact
ImpactNone == [some |-> FALSE, v |-> NoImpact]

\* a scoring that counts a budget spent exactly to a threshold as over it
BudgetScoreAtThreshold(spent_ratio) ==
    IF FLe(Frac(1, 1), spent_ratio) THEN Frac(-1, 1)
    ELSE IF FLe(Frac(8, 10), spent_ratio) THEN Frac(-7, 10)
    ELSE Frac(-3, 10)

\* the impact_score of the if/elif/else on spent_ratio
BudgetScore(spent_ratio) ==
    IF FLt(Frac(1, 1), spent_ratio) THEN Frac(-1, 1)
    ELSE IF FLt(Frac(8, 10), spent_ratio) THEN Frac(-7, 10)
    ELSE Frac(-3, 10)

\* GoalImpactCalculator._calculate_budget_impact: Some(impact) or None
CalculateBudgetImpact(transaction, cat, goal, instant) ==
    LET amount == transaction.amount
        impact_amount == amount
        spent_ratio == Frac(goal.current_amount + impact_amount,
                            goal.target_amount)
        impact_score == BudgetScore(spent_ratio)
        message ==
            IF FLt(Frac(1, 1), spent_ratio)
            THEN <<"Budget exceeded! Rs">> \o Format2f(amount)
                    \o <<" spent on ", cat>>
            ELSE IF FLt(Frac(8, 10), spent_ratio)
            THEN <<"Rs">> \o Format2f(amount)
                    \o <<" spent on ", cat, ". You're at ">>
                    \o FormatPercent(spent_ratio) \o <<" of monthly budget">>
            ELSE <<"Rs">> \o Format2f(amount) \o <<" spent on ", cat, ". ">>
                    \o FormatPercent(Frac(spent_ratio.d - spent_ratio.n,
                                          spent_ratio.d))
                    \o <<" of budget remaining">>
    IN IF transaction.transaction_type # "debit" THEN ImpactNone
       ELSE Some(GoalImpact(goal, impact_score, message, impact_amount,
                            FMin(Frac(1, 1), spent_ratio), FALSE,
                            PyBool(FLt(Frac(9, 10), spent_ratio))))

\* GoalImpactCalculator._calculate_single_goal_impact: Some(impact) or None
CalculateSingleGoalImpact(transaction, cat, goal, instant) ==
    IF ~IsTransactionRelevant(transaction, cat, goal) THEN ImpactNone
    ELSE CASE goal.goal_type = "savings" ->
                Some(CalculateSavingsImpact(transaction, cat, goal, instant))
           [] goal.goal_type = "bill_payment" ->
                Some(CalculateBillImpact(transaction, cat, goal, instant))
           [] goal.goal_type = "spending_limit" ->
                CalculateBudgetImpact(transaction, cat, goal, instant)
           [] OTHER -> ImpactNone

RECURSIVE ImpactsIgnoringActive(_, _, _, _, _)
\* the loop without its is_active test
ImpactsIgnoringActive(transaction, cat, registry, instant, i) ==
    IF i > Len(registry) THEN <<>>
    ELSE LET impact == CalculateSingleGoalImpact(transaction, cat,
                                                 registry[i], instant)
             rest == ImpactsIgnoringActive(transaction, cat, registry,
                                           instant, i + 1)
         IN IF impact.some THEN <<impact.v>> \o rest ELSE rest

RECURSIVE ImpactsFrom(_, _, _, _, _)
\* the loop of calculate_transaction_impact from the i-th goal on
ImpactsFrom(transaction, cat, registry, instant, i) ==
    IF i > Len(registry) THEN <<>>
    ELSE LET goal == registry[i]
             rest == ImpactsFrom(transaction, cat, registry, instant, i + 1)
         IN IF ~goal.is_active THEN rest
            ELSE LET impact == CalculateSingleGoalImpact(transaction, cat,
                                                         goal, instant)
                 IN IF impact.some THEN <<impact.v>> \o rest ELSE rest

\* GoalImpactCalculator.calculate_transaction_impact
CalculateTransactionImpact(transaction, cat, registry, instant) ==
    ImpactsFrom(transaction, cat, registry, instant, 1)

\* GoalImpactCalculator._initialize_demo_goals.  Instants count half days
\* from 2025-09-01 00:00: 2025-09-30 is 58 and 2025-12-31 is 242.
DemoSavings ==
    [goal_id |-> "demo-savings", goal_type |-> "savings",
     name |-> "Emergency Fund Savings", target_amount |-> 50000 * 100,
     current_amount |-> 15000 * 100, deadline |-> Some(242),
     categories |-> {"credit", "cashback", "investment"}, is_active |-> TRUE]

DemoBill ==
    [goal_id |-> "cc-bill", goal_type |-> "bill_payment",
     name |-> "Credit Card Bill Payment", target_amount |-> 12450 * 100,
     current_amount |-> 0, deadline |-> Some(58),
     categories |-> {"bill", "credit"}, is_active |-> TRUE]

DemoBudget ==
    [goal_id |-> "monthly-budget", goal_type |-> "spending_limit",
     name |-> "Monthly Spending Budget", target_amount |-> 25000 * 100,
     current_amount |-> 8000 * 100, deadline |-> Some(58),
     categories |-> {"shopping", "utilities", "entertainment", "food_dining"},
     is_active |-> TRUE]

DemoGoals == <<DemoSavings, DemoBill, DemoBudget>>

----------------------------------------------------------------------------
(* src/src/classifier.py *)

\* sub in s for a keyword made of letters only: the characters of such a
\* keyword lie within one letter atom of s, which is the keyword or holds it
KeywordsInside(a) ==
    CASE a = "bigmall" -> {"mall"}
      [] a = "primevideo" -> {"prime"}
      [] a = "overdue" -> {"due"}
      [] OTHER -> {}

HasKeyword(s, kw) ==
    \E i \in 1..Len(s) : s[i] = kw \/ kw \in KeywordsInside(s[i])

\* any(k in s for k in keywords)
AnyKeyword(s, keywords) == \E kw \in keywords : HasKeyword(s, kw)

\* TFLiteInterface.categories
Categories ==
    <<"shopping", "utilities", "food_dining", "transportation",
      "entertainment", "healthcare", "education", "bills", "transfer",
      "investment", "fee", "cashback", "other">>

ClassificationResult(label, confidence, subcategories, features_used) ==
    [category |-> label, confidence |-> confidence,
     subcategories |-> subcategories, features_used |-> features_used]

\* buckets that take each boundary into the lower one
GetAmountBucketInclusive(amount) ==
    IF amount <= 100 * 100 THEN "micro"
    ELSE IF amount <= 1000 * 100 THEN "small"
    ELSE IF amount <= 5000 * 100 THEN "medium"
    ELSE "large"

\* TransactionClassifier._get_amount_bucket, amounts in hundredths
GetAmountBucket(amount) ==
    IF amount < 100 * 100 THEN "micro"
    ELSE IF amount < 1000 * 100 THEN "small"
    ELSE IF amount < 5000 * 100 THEN "medium"
    ELSE "large"

\* TransactionClassifier._extract_merchant_features
ExtractMerchantFeatures(transaction) ==
    LET merchant == Lower(IF transaction.merchant.some
                          THEN transaction.merchant.v ELSE <<>>)
    IN [is_ecommerce |-> AnyKeyword(merchant, {"amazon", "flipkart", "myntra"}),
        is_streaming |-> AnyKeyword(merchant, {"netflix", "spotify", "prime"}),
        is_utility |-> AnyKeyword(merchant, {"mseb", "electricity", "gas"})]

\* TransactionClassifier._extract_amount_features
ExtractAmountFeatures(transaction) ==
    LET amount == transaction.amount
    IN [is_micro_transaction |-> amount < 10 * 100,
        is_small_transaction |-> 10 * 100 <= amount /\ amount < 500 * 100,
        is_medium_transaction |-> 500 * 100 <= amount /\ amount < 5000 * 100,
        is_large_transaction |-> amount >= 5000 * 100,
        amount_bucket |-> GetAmountBucket(amount)]

\* TransactionClassifier._extract_channel_features, less message_length
ExtractChannelFeatures(transaction) ==
    [is_sms |-> transaction.channel = "sms",
     is_email |-> transaction.channel = "email"]

\* TransactionClassifier._extract_features: the features the predictor and
\* the claims read; the time features and message_length are left to their
\* keys in FeatureKeys
ExtractFeatures(transaction) ==
    [amount |-> transaction.amount,
     transaction_type |-> transaction.transaction_type,
     merchant |-> IF transaction.merchant.some THEN transaction.merchant.v
                  ELSE <<>>,
     channel |-> transaction.channel,
     raw_message |-> transaction.raw_message,
     has_account_ref |-> transaction.account_ref.some,
     has_reference |-> transaction.reference.some,
     merchant_keywords |-> ExtractMerchantFeatures(transaction),
     amount_patterns |-> ExtractAmountFeatures(transaction),
     channel_info |-> ExtractChannelFeatures(transaction)]

\* list(features.keys()), in insertion order
FeatureKeys ==
    <<"amount", "transaction_type", "merchant", "channel", "raw_message",
      "has_account_ref", "has_reference", "is_ecommerce", "is_streaming",
      "is_utility", "is_micro_transaction", "is_small_transaction",
      "is_medium_transaction", "is_large_transaction", "amount_bucket",
      "is_business_hours", "is_weekend", "time_bucket", "is_sms", "is_email",
      "message_length">>

Prediction(label, confidence) ==
    [category |-> label, confidence |-> confidence]

\* a default outside the category list
DefaultPredictionUnlisted == Prediction("unknown", Frac(0, 1))

\* the default fallback of _rule_based_predict
DefaultPrediction == Prediction("other", Frac(3, 10))

\* the rules with the transfer rule tried before the merchant rules
RuleBasedPredictTransferFirst(features) ==
    LET merchant == Lower(features.merchant)
        txn_type == LowerAtom(features.transaction_type)
        raw == Lower(features.raw_message)
    IN IF HasKeyword(raw, "upi") \/ HasKeyword(raw, "neft")
       THEN Prediction("transfer", Frac(8, 10))
       ELSE IF AnyKeyword(merchant, {"amazon", "flipkart", "myntra", "mall"})
       THEN Prediction("shopping", Frac(9, 10))
       ELSE IF AnyKeyword(merchant, {"mseb", "electricity", "gas", "water"})
       THEN Prediction("utilities", Frac(95, 100))
       ELSE IF AnyKeyword(merchant, {"netflix", "spotify", "prime", "cinema"})
       THEN Prediction("entertainment", Frac(9, 10))
       ELSE IF txn_type = "bill" THEN Prediction("bills", Frac(85, 100))
       ELSE IF features.amount < 100 * 100
                /\ Contains(raw, <<"credit", " ", "card">>)
       THEN Prediction("fee", Frac(75, 100))
       ELSE IF txn_type = "credit" /\ HasKeyword(raw, "interest")
       THEN Prediction("cashback", Frac(9, 10))
       ELSE DefaultPrediction

\* the rules with the interest rule applied to facts of every kind
RuleBasedPredictInterestAnyKind(features) ==
    LET merchant == Lower(features.merchant)
        txn_type == LowerAtom(features.transaction_type)
        amount == features.amount
        raw == Lower(features.raw_message)
    IN IF AnyKeyword(merchant, {"amazon", "flipkart", "myntra", "mall"})
       THEN Prediction("shopping", Frac(9, 10))
       ELSE IF AnyKeyword(merchant, {"mseb", "electricity", "gas", "water"})
       THEN Prediction("utilities", Frac(95, 100))
       ELSE IF AnyKeyword(merchant, {"netflix", "spotify", "prime", "cinema"})
       THEN Prediction("entertainment", Frac(9, 10))
       ELSE IF txn_type = "bill" THEN Prediction("bills", Frac(85, 100))
       ELSE IF HasKeyword(raw, "upi") \/ HasKeyword(raw, "neft")
       THEN Prediction("transfer", Frac(8, 10))
       ELSE IF amount < 100 * 100 /\ Contains(raw, <<"credit", " ", "card">>)
       THEN Prediction("fee", Frac(75, 100))
       ELSE IF HasKeyword(raw, "interest")
       THEN Prediction("cashback", Frac(9, 10))
       ELSE DefaultPrediction

\* TFLiteInterface._rule_based_predict
RuleBasedPredict(features) ==
    LET merchant == Lower(features.merchant)
        txn_type == LowerAtom(features.transaction_type)
        amount == features.amount
        raw == Lower(features.raw_message)
    IN IF AnyKeyword(merchant, {"amazon", "flipkart", "myntra", "mall"})
       THEN Prediction("shopping", Frac(9, 10))
       ELSE IF AnyKeyword(merchant, {"mseb", "electricity", "gas", "water"})
       THEN Prediction("utilities", Frac(95, 100))
       ELSE IF AnyKeyword(merchant, {"netflix", "spotify", "prime", "cinema"})
       THEN Prediction("entertainment", Frac(9, 10))
       ELSE IF txn_type = "bill" THEN Prediction("bills", Frac(85, 100))
       ELSE IF HasKeyword(raw, "upi") \/ HasKeyword(raw, "neft")
       THEN Prediction("transfer", Frac(8, 10))
       ELSE IF amount < 100 * 100 /\ Contains(raw, <<"credit", " ", "card">>)
       THEN Prediction("fee", Frac(75, 100))
       ELSE IF txn_type = "credit" /\ HasKeyword(raw, "interest")
       THEN Prediction("cashback", Frac(9, 10))
       ELSE DefaultPrediction

\* TFLiteInterface._tflite_predict: the placeholder
TflitePredict(features) == Prediction("other", Frac(5, 10))

\* a load that marks the model loaded, as the commented-out code would
LoadModelMarkingLoaded(self, load_raises) ==
    IF load_raises THEN [self EXCEPT !.is_model_loaded = FALSE]
    ELSE [self EXCEPT !.is_model_loaded = TRUE]

\* TFLiteInterface._load_model: the try body only prints; when it raises,
\* the handler clears the flag
LoadModel(self, load_raises) ==
    IF load_raises THEN [self EXCEPT !.is_model_loaded = FALSE]
    ELSE self

\* TFLiteInterface.__init__
TFLiteInterfaceInit(model_path, load_raises) ==
    LET self == [model_path |-> model_path, model |-> None,
                 is_model_loaded |-> FALSE, categories |-> Categories]
    IN IF model_path.some THEN LoadModel(self, load_raises) ELSE self

\* TFLiteInterface.predict
Predict(self, features) ==
    IF self.is_model_loaded /\ self.model.some THEN TflitePredict(features)
    ELSE RuleBasedPredict(features)

\* a high-value test that takes in 2000 itself
HighValuePurchaseFrom2000(amount) == amount >= 2000 * 100

\* transaction.amount > 2000
HighValuePurchase(amount) == amount > 2000 * 100

\* the subcategories with the shopping tags appended in the other order
GenerateSubcategoriesSwapped(transaction, primary_category) ==
    LET merchant == Lower(IF transaction.merchant.some
                          THEN transaction.merchant.v ELSE <<>>)
    IN CASE primary_category = "shopping" ->
                (IF HasKeyword(merchant, "amazon")
                 THEN <<"online_marketplace">> ELSE <<>>)
                \o (IF HighValuePurchase(transaction.amount)
                    THEN <<"high_value_purchase">> ELSE <<>>)
         [] primary_category = "utilities" ->
                IF transaction.amount > 1000 * 100
                THEN <<"high_utility_bill">> ELSE <<>>
         [] primary_category = "bills" ->
                <<"recurring_payment">>
                \o (IF HasKeyword(Lower(transaction.raw_message), "due")
                    THEN <<"payment_reminder">> ELSE <<>>)
         [] OTHER -> <<>>

\* TransactionClassifier._generate_subcategories
GenerateSubcategories(transaction, primary_category) ==
    LET merchant == Lower(IF transaction.merchant.some
                          THEN transaction.merchant.v ELSE <<>>)
    IN CASE primary_category = "shopping" ->
                (IF HighValuePurchase(transaction.amount)
                 THEN <<"high_value_purchase">> ELSE <<>>)
                \o (IF HasKeyword(merchant, "amazon")
                    THEN <<"online_marketplace">> ELSE <<>>)
         [] primary_category = "utilities" ->
                IF transaction.amount > 1000 * 100
                THEN <<"high_utility_bill">> ELSE <<>>
         [] primary_category = "bills" ->
                <<"recurring_payment">>
                \o (IF HasKeyword(Lower(transaction.raw_message), "due")
                    THEN <<"payment_reminder">> ELSE <<>>)
         [] OTHER -> <<>>

\* TransactionClassifier.classify_transaction
ClassifyTransaction(interface, transaction) ==
    LET features == ExtractFeatures(transaction)
        prediction == Predict(interface, features)
    IN ClassificationResult(
            prediction.category, prediction.confidence,
            GenerateSubcategories(transaction, prediction.category),
            FeatureKeys)

\* the classifier before construction and before a call
NoInterface ==
    [model_path |-> None, model |-> None, is_model_loaded |-> FALSE,
     categories |-> <<>>]

NoClassification == ClassificationResult("", Frac(0, 1), <<>>, <<>>)

\* the feature map before a call
NoFeatures == ExtractFeatures(NoTransaction)

ClassIdle ==
    /\ tflite_interface = NoInterface /\ constructed = FALSE
    /\ parsed_txn = NoTransaction
    /\ classification = NoClassification /\ classified = FALSE
    /\ feature_map = NoFeatures

ServiceIdle == responses = <<>> /\ goal_impact_rows = <<>>

----------------------------------------------------------------------------
(* Messages the extractor is run on *)

AmountStrings ==
    { <<"1", ",", "2", "4", "9", ".", "0", "0">>,   \* 1,249.00
      <<"7", "9", "9">>,                            \* 799
      <<"9", "9", ".", "9", "9">>,                  \* 99.99
      <<"5", "0", "0", "0", ".">>,                  \* 5000.
      <<",">>,                                      \* separators only
      <<",", ".">>,
      <<"1", ",", "2", "4", "9", ".", "0", "0", ".">> } \* trailing full stop

Merchants == { <<"AMAZON">>, <<"Netflix">> }

DateStrings ==
    { <<"2", "3", "-", "0", "9", "-", "2", "0", "2", "5">>,
      <<"3", "1", "-", "0", "2", "-", "2", "0", "2", "5">>,
      <<"2", "3", "-", "1", "3", "-", "2", "0", "2", "5">> }

TimeStrings == { <<"1", "4", "3", "5">>, <<"2", "5", "1", "0">> }

CardSpendText(a, m, d, t) ==
    <<"INR", " ">> \o a
        \o <<" ", "spent", " ", "on", " ", "HDFC", " ", "Credit", " ", "Card",
             " ", "XX", "1", "2", "3", "4", " ", "at", " ">> \o m
        \o <<" ", "on", " ">> \o d \o <<" ">> \o t
        \o <<".", " ", "Avl", " ", "Lmt", " ", "INR", " ", "4", "5", ",", "6",
             "7", "0", ".">>

NeftCreditText(a, d, t) ==
    <<"INR", " ">> \o a
        \o <<" ", "credited", " ", "to", " ", "AC", " ", "9", "8", "7", "6",
             " ", "ICICI", " ", "via", " ", "NEFT", " ", "on", " ">> \o d
        \o <<" ">> \o t \o <<".", " ", "Ref", " ", "ABCD", "1", "2", "3", ".">>

UpiPaymentText(a, m, d, t) ==
    <<"INR", " ">> \o a \o <<" ", "paid", " ", "to", " ">> \o m
        \o <<" ", "via", " ", "UPI", " ", "Ref", " ", "UPI", "1", "2", "3",
             "XYZ", " ", "on", " ">> \o d \o <<" ">> \o t \o <<".">>

BillReminderText(a, d) ==
    <<"Reminder", ":", " ", "Credit", " ", "Card", " ", "payment", " ", "of",
      " ", "INR", " ">> \o a \o <<" ", "due", " ", "on", " ">> \o d
        \o <<" ", "for", " ", "HDFC", " ", "XX", "1", "2", "3", "4", ".">>

InterestCreditText(a) ==
    <<"Dear", " ", "Customer", ",", " ", "your", " ", "monthly", " ",
      "interest", " ", "INR", " ">> \o a
        \o <<" ", "has", " ", "been", " ", "credited", " ", "on", " ", "3",
             "0", " ", "Sep", ".">>

EmailPaymentText(a, m) ==
    <<"INR", " ">> \o a \o <<" ", "paid", " ", "to", " ">> \o m
        \o <<".", " ", "Txn", " ", "ABCD", "1", "2", "3", " ", "on", " ", "3",
             "0", " ", "Sep", " ", "2", "0", "2", "5">>

OneDate == <<"2", "3", "-", "0", "9", "-", "2", "0", "2", "5">>
OneTime == <<"1", "4", "3", "5">>

Texts ==
    {CardSpendText(a, m, d, t) :
        a \in AmountStrings, m \in Merchants, d \in DateStrings,
        t \in TimeStrings}
    \cup {NeftCreditText(a, d, t) :
        a \in AmountStrings, d \in DateStrings, t \in TimeStrings}
    \cup {UpiPaymentText(a, m, OneDate, OneTime) :
        a \in AmountStrings, m \in Merchants}
    \cup {BillReminderText(a, d) : a \in AmountStrings, d \in DateStrings}
    \* two templates in one message, the later pattern's text first
    \cup {BillReminderText(<<"5", "0", "0">>, OneDate) \o <<" ">>
            \o CardSpendText(a, <<"AMAZON">>, OneDate, OneTime) :
        a \in AmountStrings}
    \cup {UpiPaymentText(<<"5", "0", "0">>, <<"Netflix">>, OneDate, OneTime)
            \o <<" ">> \o NeftCreditText(a, OneDate, OneTime) :
        a \in AmountStrings}
    \* no template, with or without an amount token
    \cup {<<"Your", " ", "account", " ", "debited", " ", "INR", " ">> \o a
            \o <<" ", "today">> : a \in AmountStrings}
    \cup {<<"INR", " ">> \o a : a \in AmountStrings}
    \cup {<<" ", " ", "INR", " ">> \o a \o <<" ">> : a \in AmountStrings}
    \cup {<<"INR", " ", "abc", " ", "INR", " ">> \o a : a \in AmountStrings}
    \cup { <<>>, <<" ">>, <<"Hello", " ", "world">>, <<"INR">>,
           <<"INR", " ", "abc">>, <<"inr", " ", "5", "0", "0">>,
           <<"Rs", ".", " ", "5", "0", "0">> }
    \* upper and lower case variants of a template
    \cup { <<"inr", " ", "7", "9", "9", " ", "SPENT", " ", "ON", " ", "hdfc",
             " ", "credit", " ", "card", " ", "xx", "1", " ", "AT", " ",
             "amazon", " ", "ON", " ">> \o OneDate \o <<" ">> \o OneTime }
    \cup {<<" ">> \o CardSpendText(<<"7", "9", "9">>, m, OneDate, OneTime)
            \o <<" ", " ">> : m \in Merchants}
    \cup {InterestCreditText(a) : a \in AmountStrings}
    \cup {EmailPaymentText(a, m) : a \in AmountStrings, m \in Merchants}

Channels == {"sms", "email"}

----------------------------------------------------------------------------
(* The extractor run on one message *)

ExtractIdle == text = <<>> /\ channel = "sms" /\ outcome = Pending

InitExtract ==
    /\ text \in Texts
    /\ channel \in Channels
    /\ outcome = Pending

\* process_single_message's parsing step: one call of parse_message
ParseMessage ==
    /\ outcome.tag = "pending"
    /\ outcome' = Extract(text, channel)
    /\ UNCHANGED <<text, channel, goalVars, storeVars, classVars, serviceVars>>

----------------------------------------------------------------------------
(* The goal engine run on one transaction *)

GoalTypes == {"savings", "budget", "bill_payment", "spending_limit",
              "investment"}

Kinds == {"credit", "debit", "bill", "fee", "other"}

\* amounts in hundredths: 0, 99.99, 1249, 3000, 4000, 5000, 12450 and 10^6
GoalAmounts == {0, 9999, 124900, 300000, 400000, 500000, 1245000, 100000000}

GoalCategories == {"shopping", "bills", "cashback", "transfer", "other"}

GoalRawMessages ==
    { <<"INR", " ", "5", "0", "0", " ", "debited">>,
      BillReminderText(<<"5", "0", "0">>, OneDate),
      CardSpendText(<<"5", "0", "0">>, <<"AMAZON">>, OneDate, OneTime),
      <<"PAYMENT", " ", "REMINDER", " ", "INR", " ", "5", "0", "0">> }

GoalTransactions ==
    {ParsedTransaction(a, k, NowStamp, None, None, None, Frac(9, 10), raw,
                       "sms", "regex_pattern", NoFields) :
        a \in GoalAmounts, k \in Kinds, raw \in GoalRawMessages}

\* 2025-09-23 12:00, 2025-09-24 12:00, 2025-12-01 00:00 and 12:00, and
\* 2026-11-03 00:00
Instants == {45, 47, 182, 183, 856}

\* variations of the demo goals
SingleGoals ==
    {[DemoSavings EXCEPT !.current_amount = c, !.deadline = d] :
        c \in {0, 15000 * 100, 49000 * 100}, d \in {None, Some(242)}}
    \cup {[DemoBill EXCEPT !.goal_id = i, !.deadline = d] :
        i \in {"cc-bill", "rent-bill"}, d \in {None, Some(58)}}
    \cup {[DemoBudget EXCEPT !.current_amount = c] :
        c \in {8000 * 100, 20000 * 100, 24000 * 100}}
    \cup {[g EXCEPT !.goal_type = t] :
        g \in {DemoSavings, DemoBill, DemoBudget},
        t \in {"budget", "investment"}}

Registries ==
    {<<g>> : g \in SingleGoals}
    \cup {<<[DemoSavings EXCEPT !.is_active = a1],
            [DemoBill EXCEPT !.is_active = a2],
            [DemoBudget EXCEPT !.is_active = a3]>> :
        a1 \in BOOLEAN, a2 \in BOOLEAN, a3 \in BOOLEAN}
    \cup { <<DemoBudget, DemoBill, DemoSavings>>,
           <<[DemoBudget EXCEPT !.goal_id = "yearly-budget",
                                !.goal_type = "budget"],
             DemoSavings,
             [DemoSavings EXCEPT !.goal_id = "mutual-fund",
                                 !.goal_type = "investment"],
             DemoBudget,
             [DemoBill EXCEPT !.goal_id = "rent-bill", !.is_active = FALSE],
             DemoBill>> }

GoalIdle ==
    /\ txn = NoTransaction /\ category = "" /\ goals = DemoGoals /\ now = 0
    /\ impacts = <<>> /\ evaluated = FALSE

InitGoal ==
    /\ txn \in GoalTransactions
    /\ category \in GoalCategories
    /\ goals \in Registries
    /\ now \in Instants
    /\ impacts = <<>>
    /\ evaluated = FALSE

\* one call of calculate_transaction_impact
Evaluate ==
    /\ ~evaluated
    /\ impacts' = CalculateTransactionImpact(txn, category, goals, now)
    /\ evaluated' = TRUE
    /\ UNCHANGED <<txn, category, goals, now, extractVars, storeVars, classVars,
                   serviceVars>>

----------------------------------------------------------------------------
(* src/src/database.py: upsert_transaction *)

\* DatabaseManager.generate_transaction_hash: SHA-256 of the raw message,
\* taken to be free of collisions
GenerateTransactionHash(raw_message) == [sha256 |-> raw_message]

\* a SELECT that never finds the stored row
SelectIdNever(table, hash) == 0

\* SELECT id FROM transactions WHERE hash = ? ... fetchone(): the id of the
\* first row with the hash, 0 when there is none
SelectIdByHash(table, hash) ==
    IF \E i \in 1..Len(table) : table[i].hash = hash
    THEN table[CHOOSE i \in 1..Len(table) :
                  /\ table[i].hash = hash
                  /\ \A j \in 1..(i - 1) : table[j].hash # hash].id
    ELSE 0

\* the row INSERT INTO transactions writes
TransactionRow(transaction_id, transaction_data) ==
    [id |-> transaction_id, userid |-> transaction_data.userid,
     hash |-> GenerateTransactionHash(transaction_data.raw_message)]

Callers == {"a", "b"}

\* the number of upsert_transaction calls a run makes
MaxCalls == 3

StoreMessages == { <<"INR", " ", "5">>, <<"INR", " ", "7">> }

UserIds == {"demo-user", "other-user"}

NoRequest == [raw_message |-> <<>>, userid |-> ""]

StoreIdle ==
    /\ rows = <<>> /\ uniqueHash = FALSE /\ uuids = 0
    /\ pc = [c \in Callers |-> "idle"]
    /\ req = [c \in Callers |-> NoRequest]
    /\ newId = [c \in Callers |-> 0]
    /\ log = {}

\* the schema is not part of the sources: the hash column may or may not be
\* declared UNIQUE
InitStore ==
    /\ rows = <<>>
    /\ uniqueHash \in BOOLEAN
    /\ uuids = 0
    /\ pc = [c \in Callers |-> "idle"]
    /\ req = [c \in Callers |-> NoRequest]
    /\ newId = [c \in Callers |-> 0]
    /\ log = {}

\* lines 45-46: the call draws its uuid4 and hashes the raw message
BeginUpsert(c, transaction_data) ==
    /\ pc[c] = "idle"
    /\ uuids < MaxCalls
    /\ uuids' = uuids + 1
    /\ newId' = [newId EXCEPT ![c] = uuids + 1]
    /\ req' = [req EXCEPT ![c] = transaction_data]
    /\ pc' = [pc EXCEPT ![c] = "select"]
    /\ UNCHANGED <<rows, uniqueHash, log, extractVars, goalVars, classVars,
                   serviceVars>>

\* lines 50-56: the SELECT, and the return of the existing id
SelectExisting(c) ==
    /\ pc[c] = "select"
    /\ LET existing ==
            SelectIdByHash(rows, GenerateTransactionHash(req[c].raw_message))
       IN IF existing # 0
          THEN /\ log' = log \cup {[call |-> newId[c],
                                    raw_message |-> req[c].raw_message,
                                    raised |-> FALSE, id |-> existing]}
               /\ pc' = [pc EXCEPT ![c] = "idle"]
          ELSE /\ pc' = [pc EXCEPT ![c] = "insert"]
               /\ log' = log
    /\ UNCHANGED <<rows, uniqueHash, uuids, req, newId, extractVars, goalVars,
                   classVars, serviceVars>>

\* lines 59-81: the INSERT, committed when the with block is left; a UNIQUE
\* hash column makes it raise sqlite3.IntegrityError on a stored hash
InsertNew(c) ==
    /\ pc[c] = "insert"
    /\ LET row == TransactionRow(newId[c], req[c])
           clash == uniqueHash /\ SelectIdByHash(rows, row.hash) # 0
       IN /\ rows' = IF clash THEN rows ELSE Append(rows, row)
          /\ log' = log \cup {[call |-> newId[c],
                               raw_message |-> req[c].raw_message,
                               raised |-> clash,
                               id |-> IF clash THEN 0 ELSE newId[c]]}
    /\ pc' = [pc EXCEPT ![c] = "idle"]
    /\ UNCHANGED <<uniqueHash, uuids, req, newId, extractVars, goalVars,
                   classVars, serviceVars>>

\* a caller starts a call while no other call is running
BeginUpsertAlone ==
    /\ \A d \in Callers : pc[d] = "idle"
    /\ \E c \in Callers, m \in StoreMessages, u \in UserIds :
            BeginUpsert(c, [raw_message |-> m, userid |-> u])

\* a caller starts a call at any time
BeginUpsertAnyTime ==
    \E c \in Callers, m \in StoreMessages, u \in UserIds :
        BeginUpsert(c, [raw_message |-> m, userid |-> u])

Select == \E c \in Callers : SelectExisting(c)

Insert == \E c \in Callers : InsertNew(c)

----------------------------------------------------------------------------
(* src/src/main.py: the request handlers *)

SampleCardSpend ==
    CardSpendText(<<"1", ",", "2", "4", "9", ".", "0", "0">>, <<"AMAZON">>,
                  OneDate, OneTime)

SampleReminder ==
    BillReminderText(<<"1", "2", ",", "4", "5", "0">>, OneDate)

SampleCredit == NeftCreditText(<<"7", "9", "9">>, OneDate, OneTime)

SampleEmail == EmailPaymentText(<<"7", "9", "9">>, <<"Netflix">>)

\* an amount token of separators only
SeparatorsOnly == CardSpendText(<<",">>, <<"AMAZON">>, OneDate, OneTime)

NoAmount == <<"Hello", " ", "world">>

\* the messages and file lines the service is sent
ServiceMessages ==
    {SampleCardSpend, SampleReminder, SampleCredit, SampleEmail,
     SeparatorsOnly, NoAmount}

\* parse_message tabulated over the service's messages, each worked out
\* once
ParseMessageTable ==
    {[raw |-> m, chan |-> c, outcome |-> Extract(m, c)] :
        m \in ServiceMessages, c \in Channels}

\* transaction_parser.sms_parser.parse_message or
\* transaction_parser.email_parser.parse_message
ParserParseMessage(raw, chan) ==
    IF \E e \in ParseMessageTable : e.raw = raw /\ e.chan = chan
    THEN (CHOOSE e \in ParseMessageTable :
                e.raw = raw /\ e.chan = chan).outcome
    ELSE Extract(raw, chan)


\* a registry that books each impact amount on its goal
DemoGoalsBooked(registry, goal_impacts) ==
    [i \in 1..Len(registry) |->
        LET hits == {k \in 1..Len(goal_impacts) :
                        goal_impacts[k].goal_id = registry[i].goal_id}
        IN IF hits = {} THEN registry[i]
           ELSE [registry[i] EXCEPT !.current_amount =
                    @ + goal_impacts[CHOOSE k \in hits : TRUE].impact_amount]]

\* self.demo_goals after a call of calculate_transaction_impact: the loop
\* reads each goal and assigns to none
DemoGoalsAfter(registry, goal_impacts) == registry

\* an upsert that writes the submitted values over the stored row
UpsertTransactionReplacing(table, drawn, transaction_data, storage_raises) ==
    LET existing ==
            SelectIdByHash(table,
                GenerateTransactionHash(transaction_data.raw_message))
    IN IF storage_raises
       THEN [raised |-> TRUE, id |-> 0, rows |-> table, uuids |-> drawn + 1]
       ELSE IF existing # 0
       THEN [raised |-> FALSE, id |-> existing,
             rows |-> [n \in 1..Len(table) |->
                        IF table[n].id = existing
                        THEN TransactionRow(existing, transaction_data)
                        ELSE table[n]],
             uuids |-> drawn + 1]
       ELSE [raised |-> FALSE, id |-> drawn + 1,
             rows |-> Append(table,
                        TransactionRow(drawn + 1, transaction_data)),
             uuids |-> drawn + 1]

\* DatabaseManager.upsert_transaction run without interruption: the uuid4
\* is drawn first; storage_raises stands for sqlite3 raising in the with
\* block, which leaves the table as it was
UpsertTransaction(table, drawn, transaction_data, storage_raises) ==
    LET transaction_id == drawn + 1
        existing ==
            SelectIdByHash(table,
                GenerateTransactionHash(transaction_data.raw_message))
    IN IF storage_raises
       THEN [raised |-> TRUE, id |-> 0, rows |-> table, uuids |-> drawn + 1]
       ELSE IF existing # 0
       THEN [raised |-> FALSE, id |-> existing, rows |-> table,
             uuids |-> drawn + 1]
       ELSE [raised |-> FALSE, id |-> transaction_id,
             rows |-> Append(table,
                        TransactionRow(transaction_id, transaction_data)),
             uuids |-> drawn + 1]

\* DatabaseManager.add_goal_impact, for each impact in list order
RECURSIVE AddGoalImpacts(_, _, _, _, _)
AddGoalImpacts(table, drawn, transaction_id, goal_impacts, i) ==
    IF i > Len(goal_impacts)
    THEN [rows |-> table, uuids |-> drawn]
    ELSE AddGoalImpacts(
            Append(table, [id |-> drawn + 1,
                           transaction_id |-> transaction_id,
                           goal_id |-> goal_impacts[i].goal_id,
                           impact_score |-> goal_impacts[i].impact_score,
                           message |-> goal_impacts[i].message]),
            drawn + 1, transaction_id, goal_impacts, i + 1)

\* the state the handlers work on: the two tables, the uuid4 values drawn
\* and the goal registry
ServiceState(table, drawn, impact_table, registry) ==
    [rows |-> table, uuids |-> drawn, goal_impact_rows |-> impact_table,
     goals |-> registry]

\* a local variable of a handler: Op applied to the value of v, which is
\* worked out once
Bind(v, Op(_)) == CHOOSE y \in {Op(x) : x \in {v}} : TRUE

\* classify, evaluate, upsert and add_goal_impact for one fact: main.py
\* lines 173-206 and 256-284
ProcessTransaction(st, interface, fact, user_id, instant, storage_raises) ==
    Bind(ClassifyTransaction(interface, fact), LAMBDA result :
    Bind(CalculateTransactionImpact(fact, result.category, st.goals,
                                    instant), LAMBDA goal_impacts :
    Bind(UpsertTransaction(st.rows, st.uuids,
            [raw_message |-> fact.raw_message, userid |-> user_id],
            storage_raises), LAMBDA upsert :
    Bind(AddGoalImpacts(st.goal_impact_rows, upsert.uuids, upsert.id,
                        goal_impacts, 1), LAMBDA added :
        [raised |-> upsert.raised,
         transaction_id |-> upsert.id,
         classification |-> result,
         goal_impacts |-> goal_impacts,
         st |-> IF upsert.raised
                THEN ServiceState(st.rows, upsert.uuids,
                        st.goal_impact_rows,
                        DemoGoalsAfter(st.goals, goal_impacts))
                ELSE ServiceState(upsert.rows, added.uuids, added.rows,
                        DemoGoalsAfter(st.goals, goal_impacts))]))))

NoBody ==
    [transaction_id |-> 0, category |-> "", confidence |-> Frac(0, 1),
     goal_impacts |-> <<>>, processed_count |-> 0, total_transactions |-> 0]

\* what the handler worked out for a single message
Computed(result, goal_impacts) ==
    [classification |-> result, goal_impacts |-> goal_impacts]

NothingComputed == Computed(NoClassification, <<>>)

\* what a handler's try block did: returned a body, raised an
\* HTTPException, or raised another exception (status 0)
HandlerResult(raised, status, detail, body, computed, st) ==
    [raised |-> raised, status |-> status, detail |-> detail, body |-> body,
     computed |-> computed, st |-> st]

\* except Exception: ... raise HTTPException(status_code=500, ...), main.py
\* lines 230-232 and 300-302; HTTPException is an Exception
ExceptException(result) ==
    IF result.raised
    THEN [result EXCEPT !.status = 500, !.detail = "Internal server error"]
    ELSE result

\* the goal_impacts list of the ProcessedTransaction response
ResponseImpacts(goal_impacts) ==
    [k \in 1..Len(goal_impacts) |->
        [goal_id |-> goal_impacts[k].goal_id,
         goal_name |-> goal_impacts[k].goal_name,
         impact_score |-> goal_impacts[k].impact_score,
         message |-> goal_impacts[k].message,
         new_progress |-> goal_impacts[k].new_progress]]

\* the try block of process_single_message, main.py lines 155-228
SingleMessageTry(st, interface, request, instant) ==
    IF request.channel \notin {"sms", "email"}
    THEN HandlerResult(TRUE, 400, "Invalid channel. Use 'sms' or 'email'",
                       NoBody, NothingComputed, st)
    ELSE Bind(ParserParseMessage(request.message, request.channel),
              LAMBDA parsed :
         IF parsed.tag = "raise"
         THEN HandlerResult(TRUE, 0, "", NoBody, NothingComputed, st)
         ELSE IF parsed.tag = "none"
         THEN HandlerResult(TRUE, 422,
                  "Unable to parse transaction from message", NoBody,
                  NothingComputed, st)
         ELSE Bind(ProcessTransaction(st, interface, parsed.fact,
                        request.user_id, instant, request.storage_raises),
                   LAMBDA done :
              IF done.raised
              THEN HandlerResult(TRUE, 0, "", NoBody, NothingComputed,
                                 done.st)
              ELSE HandlerResult(FALSE, 200, "",
                        [NoBody EXCEPT
                            !.transaction_id = done.transaction_id,
                            !.category = done.classification.category,
                            !.confidence = done.classification.confidence,
                            !.goal_impacts =
                                ResponseImpacts(done.goal_impacts)],
                        Computed(done.classification, done.goal_impacts),
                        done.st)))

\* process_single_message
ProcessSingleMessageResult(st, interface, request, instant) ==
    Bind(SingleMessageTry(st, interface, request, instant), ExceptException)

\* TransactionParser.parse_sms_file and parse_email_file: blank lines are
\* skipped, a line without a fact is left out, and an exception of
\* parse_message leaves the function
RECURSIVE ParseFile(_, _, _, _)
ParseFile(lines, chan, i, transactions) ==
    IF i > Len(lines)
    THEN [raised |-> FALSE, transactions |-> transactions]
    ELSE IF Strip(lines[i]) = <<>>
    THEN ParseFile(lines, chan, i + 1, transactions)
    ELSE Bind(ParserParseMessage(Strip(lines[i]), chan), LAMBDA parsed :
         IF parsed.tag = "raise"
         THEN [raised |-> TRUE, transactions |-> <<>>]
         ELSE IF parsed.tag = "fact"
         THEN ParseFile(lines, chan, i + 1, Append(transactions, parsed.fact))
         ELSE ParseFile(lines, chan, i + 1, transactions))

\* the loop of process_bulk_messages, main.py lines 254-288: an item that
\* raises is logged and skipped
RECURSIVE BulkLoop(_, _, _, _, _, _, _)
BulkLoop(st, interface, transactions, request, instant, i, processed_count) ==
    IF i > Len(transactions)
    THEN [st |-> st, processed_count |-> processed_count]
    ELSE Bind(ProcessTransaction(st, interface, transactions[i],
                    request.user_id, instant, i \in request.failing),
              LAMBDA done :
         Bind(IF done.raised THEN processed_count ELSE processed_count + 1,
              LAMBDA count :
         BulkLoop(done.st, interface, transactions, request, instant, i + 1,
                  count)))

\* the try block of process_bulk_messages, main.py lines 237-298
BulkMessagesTry(st, interface, request, instant) ==
    IF ~request.file.some
    THEN HandlerResult(TRUE, 404, "Data file not found", NoBody,
                       NothingComputed, st)
    ELSE IF request.file_type \notin {"sms", "email"}
    THEN HandlerResult(TRUE, 400,
            "Invalid file_type. Use 'sms' or 'email'", NoBody,
            NothingComputed, st)
    ELSE Bind(ParseFile(request.file.v, request.file_type, 1, <<>>),
              LAMBDA parsed :
         IF parsed.raised
         THEN HandlerResult(TRUE, 0, "", NoBody, NothingComputed, st)
         ELSE Bind(BulkLoop(st, interface, parsed.transactions, request,
                            instant, 1, 0), LAMBDA loop :
              HandlerResult(FALSE, 200, "completed",
                    [NoBody EXCEPT
                        !.processed_count = loop.processed_count,
                        !.total_transactions = Len(parsed.transactions)],
                    NothingComputed, loop.st)))

\* process_bulk_messages
ProcessBulkMessagesResult(st, interface, request, instant) ==
    Bind(BulkMessagesTry(st, interface, request, instant), ExceptException)

----------------------------------------------------------------------------
(* Specifications *)

\* the extractor applied to each message of Texts on each channel
InitExtractOnly ==
    InitExtract /\ GoalIdle /\ StoreIdle /\ ClassIdle /\ ServiceIdle
NextExtract == ParseMessage
SpecExtract == InitExtractOnly /\ [][NextExtract]_vars

\* the goal engine applied to each transaction, registry and instant
InitGoalOnly ==
    ExtractIdle /\ InitGoal /\ StoreIdle /\ ClassIdle /\ ServiceIdle
NextGoal == Evaluate
SpecGoal == InitGoalOnly /\ [][NextGoal]_vars

\* upsert_transaction calls run one after another
InitStoreOnly ==
    ExtractIdle /\ GoalIdle /\ InitStore /\ ClassIdle /\ ServiceIdle
NextUpsertSeq == BeginUpsertAlone \/ Select \/ Insert
SpecUpsertSeq == InitStoreOnly /\ [][NextUpsertSeq]_vars

\* upsert_transaction calls of independent callers, interleaved
NextUpsertConc == BeginUpsertAnyTime \/ Select \/ Insert
SpecUpsertConc == InitStoreOnly /\ [][NextUpsertConc]_vars

----------------------------------------------------------------------------
(* The classifier constructed and run on one transaction *)

ClassifyAmountStrings ==
    { <<"9", "9", ".", "9", "9">>,                          \* 99.99
      <<"7", "9", "9">>,                                    \* 799
      <<"1", ",", "0", "0", "0", ".", "0", "0">>,           \* 1,000.00
      <<"1", "0", "0", "0", ".", "0", "1">>,                \* 1000.01
      <<"1", ",", "2", "4", "9", ".", "0", "0">>,           \* 1,249.00
      <<"2", ",", "0", "0", "0", ".", "0", "0">>,           \* 2,000.00
      <<"2", "0", "0", "0", ".", "0", "1">> }               \* 2000.01

ClassifyMerchants ==
    { <<"AMAZON">>, <<"Netflix">>, <<"MSEB">>, <<"BigMall">>, <<"Cafe">>,
      <<"Amazon", " ", "Prime">> }

\* the messages whose facts are classified, each with its channel
ClassifyMessages ==
    {<<CardSpendText(a, m, OneDate, OneTime), "sms">> :
        a \in ClassifyAmountStrings, m \in ClassifyMerchants}
    \cup {<<UpiPaymentText(a, m, OneDate, OneTime), "sms">> :
        a \in ClassifyAmountStrings, m \in ClassifyMerchants}
    \cup {<<NeftCreditText(a, OneDate, OneTime), "sms">> :
        a \in ClassifyAmountStrings}
    \cup {<<BillReminderText(a, OneDate), "sms">> :
        a \in ClassifyAmountStrings}
    \cup {<<<<"Your", " ", "account", " ", "debited", " ", "INR", " ">> \o a
            \o <<" ", "today">>, "sms">> : a \in ClassifyAmountStrings}
    \cup {<<InterestCreditText(a), "email">> : a \in ClassifyAmountStrings}
    \cup {<<EmailPaymentText(a, m), "email">> :
        a \in ClassifyAmountStrings, m \in ClassifyMerchants}

\* the facts extract produces for them
ExtractedFacts ==
    {Extract(m[1], m[2]).fact :
        m \in {n \in ClassifyMessages : Extract(n[1], n[2]).tag = "fact"}}

\* facts of every kind with the optional fields unset
BareFacts ==
    {ParsedTransaction(a, k, NowStamp, None, None, None, Frac(9, 10), raw,
                       "sms", "regex_pattern", NoFields) :
        a \in {0, 999, 1000, 9999, 10000, 49999, 50000, 99999, 100000,
               100001, 200000, 200001, 499999, 500000},
        k \in Kinds,
        raw \in { <<"Bill", " ", "generated">>,
                  <<"Bill", " ", "overdue">>,
                  <<"interest", " ", "on", " ", "Credit", " ", "Card">> }}

ClassifyFacts == ExtractedFacts \cup BareFacts

\* the model paths a TFLiteInterface is constructed with
ModelPaths == {None, Some(<<"model", ".", "tflite">>)}

InitClassify ==
    /\ tflite_interface = NoInterface /\ constructed = FALSE
    /\ parsed_txn \in ClassifyFacts
    /\ classification = NoClassification /\ classified = FALSE
    /\ feature_map = NoFeatures

\* TransactionClassifier.__init__: one TFLiteInterface is constructed
Construct ==
    /\ ~constructed
    /\ \E model_path \in ModelPaths, load_raises \in BOOLEAN :
            tflite_interface' = TFLiteInterfaceInit(model_path, load_raises)
    /\ constructed' = TRUE
    /\ UNCHANGED <<parsed_txn, classification, classified, feature_map,
                   extractVars, goalVars, storeVars, serviceVars>>

\* one call of classify_transaction
Classify ==
    /\ constructed /\ ~classified
    /\ feature_map' = ExtractFeatures(parsed_txn)
    /\ classification' = ClassifyTransaction(tflite_interface, parsed_txn)
    /\ classified' = TRUE
    /\ UNCHANGED <<tflite_interface, constructed, parsed_txn, extractVars,
                   goalVars, storeVars, serviceVars>>

InitClassifyOnly ==
    ExtractIdle /\ GoalIdle /\ StoreIdle /\ InitClassify /\ ServiceIdle
NextClassify == Construct \/ Classify
SpecClassify == InitClassifyOnly /\ [][NextClassify]_vars

----------------------------------------------------------------------------
(* The service answering requests one after another *)

\* the number of requests a run answers
MaxRequests == 2

\* the bodies posted to /api/v1/process-message
SingleRequests ==
    {[message |-> m, channel |-> "sms", user_id |-> "demo-user",
      storage_raises |-> f] :
        m \in {SampleCardSpend, SampleReminder, NoAmount, SeparatorsOnly},
        f \in BOOLEAN}
    \cup {[message |-> m, channel |-> "email", user_id |-> "demo-user",
           storage_raises |-> FALSE] : m \in {SampleEmail, SampleCardSpend}}
    \cup {[message |-> SampleCardSpend, channel |-> c,
           user_id |-> "other-user", storage_raises |-> FALSE] :
            c \in {"sms", "push"}}

\* the contents of data/<file_type>.txt
DataFiles ==
    { <<SampleCardSpend, <<" ">>, SampleReminder, SampleCredit>>,
      <<SampleCardSpend, SeparatorsOnly, SampleCredit>>,
      <<SampleCredit, NoAmount, SampleCardSpend>> }

\* the bodies posted to /api/v1/process-bulk, each with the data file found
\* and the items whose storage raises
BulkRequests ==
    {[file_type |-> "sms", file |-> Some(d), user_id |-> "demo-user",
      failing |-> s] : d \in DataFiles, s \in {{}, {2}}}
    \cup {[file_type |-> "email", file |-> Some(<<SampleEmail>>),
           user_id |-> "demo-user", failing |-> {}],
          [file_type |-> "push", file |-> None, user_id |-> "demo-user",
           failing |-> {}],
          [file_type |-> "push", file |-> Some(<<SampleCredit>>),
           user_id |-> "demo-user", failing |-> {}]}

\* 2025-09-23 12:00 and 2025-12-01 12:00
ServiceInstants == {45, 183}

\* main.py lines 70-74: the services as constructed at import, the tables
\* empty
InitService ==
    /\ tflite_interface = TFLiteInterfaceInit(None, FALSE)
    /\ constructed = TRUE
    /\ parsed_txn = NoTransaction
    /\ classification = NoClassification /\ classified = FALSE
    /\ feature_map = NoFeatures
    /\ txn = NoTransaction /\ category = "" /\ goals = DemoGoals
    /\ now \in ServiceInstants
    /\ impacts = <<>> /\ evaluated = FALSE
    /\ responses = <<>> /\ goal_impact_rows = <<>>

\* what a request did, as seen from outside: the answer, the rows it
\* added, and the classification and impacts worked out for a single
\* message
Answered(endpoint, request, result) ==
    [endpoint |-> endpoint, request |-> request, now |-> now,
     status |-> result.status, detail |-> result.detail,
     body |-> result.body,
     stored |-> Len(result.st.rows) - Len(rows),
     classification |-> result.computed.classification,
     goal_impacts |-> result.computed.goal_impacts]

\* POST /api/v1/process-message: the handler has no await, so it runs to
\* its end before another request is taken up
ProcessSingleMessage ==
    /\ Len(responses) < MaxRequests
    /\ \E request \in SingleRequests :
         \E result \in {ProcessSingleMessageResult(
                            ServiceState(rows, uuids, goal_impact_rows,
                                         goals),
                            tflite_interface, request, now)} :
            /\ rows' = result.st.rows
            /\ uuids' = result.st.uuids
            /\ goal_impact_rows' = result.st.goal_impact_rows
            /\ goals' = result.st.goals
            /\ responses' =
                Append(responses,
                       Answered("process-message", request, result))
    /\ UNCHANGED <<txn, category, now, impacts, evaluated, uniqueHash, pc,
                   req, newId, log, extractVars, classVars>>

\* POST /api/v1/process-bulk
ProcessBulkMessages ==
    /\ Len(responses) < MaxRequests
    /\ \E request \in BulkRequests :
         \E result \in {ProcessBulkMessagesResult(
                            ServiceState(rows, uuids, goal_impact_rows,
                                         goals),
                            tflite_interface, request, now)} :
            /\ rows' = result.st.rows
            /\ uuids' = result.st.uuids
            /\ goal_impact_rows' = result.st.goal_impact_rows
            /\ goals' = result.st.goals
            /\ responses' =
                Append(responses, Answered("process-bulk", request, result))
    /\ UNCHANGED <<txn, category, now, impacts, evaluated, uniqueHash, pc,
                   req, newId, log, extractVars, classVars>>

InitServiceOnly == ExtractIdle /\ StoreIdle /\ InitService
NextService == ProcessSingleMessage \/ ProcessBulkMessages
SpecService == InitServiceOnly /\ [][NextService]_vars

----------------------------------------------------------------------------
(* Claims about the store *)

NoTwoRowsShareAHash ==
    \A i, j \in 1..Len(rows) : rows[i].hash = rows[j].hash => i = j

\* the finished calls made for the same raw message as call e
SameMessageCalls(e) == {f \in log : f.raw_message = e.raw_message}

\* C1: when upsert_transaction calls run one after another, the table holds
\* at most one row per raw message, no call raises, every call returns the id
\* of the row stored for its raw message, and that id is the one the first
\* call for the message drew: later calls return it and insert nothing.
C1_SequentialUpsertAtMostOnce ==
    /\ NoTwoRowsShareAHash
    /\ \A e \in log :
        /\ ~e.raised
        /\ \E i \in 1..Len(rows) :
            /\ rows[i].hash = GenerateTransactionHash(e.raw_message)
            /\ rows[i].id = e.id
        /\ \A f \in SameMessageCalls(e) : f.id = e.id
        /\ e.id = e.call <=> \A f \in SameMessageCalls(e) : f.call >= e.call

\* three finished calls, two of them for the same raw message
C1_Witness ==
    /\ Len(rows) = 2
    /\ \E e, f \in log :
        e.raw_message = f.raw_message /\ e.call # f.call /\ e.id = f.id

\* C2: when the SELECT and INSERT steps of independent callers interleave,
\* no two rows share a hash and all calls for the same raw message return
\* the same transaction id.
C2_ConcurrentUpsertAtMostOnce ==
    /\ NoTwoRowsShareAHash
    /\ \A e, f \in log :
        e.raw_message = f.raw_message =>
            ~e.raised /\ ~f.raised /\ e.id = f.id

----------------------------------------------------------------------------
(* Claims about the extractor *)

ChannelPatterns == IF channel = "sms" THEN SmsPatterns ELSE EmailPatterns

\* the indexes of the channel's patterns that match the stripped text
MatchingPatterns ==
    {i \in 1..Len(ChannelPatterns) :
        Search(ChannelPatterns[i].regex, Strip(text), TRUE).ok}

LowestMatching ==
    CHOOSE i \in MatchingPatterns : \A j \in MatchingPatterns : i <= j

\* capture group 1 of the lowest matching pattern
LowestMatchAmountGroup ==
    Groups(Search(ChannelPatterns[LowestMatching].regex, Strip(text), TRUE),
           Strip(text))[1]

HasDigit(s) == \E i \in 1..Len(s) : s[i] \in Digits

\* C3: for a text some pattern of the channel matches, the fact returned has
\* the kind and the confidence of the lowest-index matching pattern and its
\* amount is capture group 1 without its thousands separators; a fact is
\* returned whenever that group holds a digit.
C3_FirstMatchingPatternWins ==
    (outcome.tag # "pending" /\ MatchingPatterns # {}) =>
        /\ outcome.tag # "none"
        /\ HasDigit(LowestMatchAmountGroup) => outcome.tag = "fact"
        /\ outcome.tag = "fact" =>
            /\ outcome.fact.transaction_type =
                    ChannelPatterns[LowestMatching].type
            /\ outcome.fact.confidence =
                    ChannelPatterns[LowestMatching].confidence
            /\ outcome.fact.amount =
                    ParseFloat(Remove(LowestMatchAmountGroup, ",")).v

\* a message two patterns match, parsed as the lower-index one with the
\* thousands separator of 1,249.00 removed
C3_Witness ==
    /\ outcome.tag = "fact"
    /\ Cardinality(MatchingPatterns) = 2
    /\ outcome.fact.transaction_type = "debit"
    /\ outcome.fact.confidence = Frac(95, 100)
    /\ outcome.fact.amount = 124900

\* the text holds a currency-amount token that reads as a decimal number
HasAmountToken ==
    LET m == Search(GenericAmountRegex, Strip(text), FALSE)
    IN m.ok /\ ParseFloat(Remove(Groups(m, Strip(text))[1], ",")).ok

IsFallbackFact(fact) ==
    /\ fact.transaction_type = "other"
    /\ fact.confidence = Frac(3, 10)
    /\ fact.merchant = None /\ fact.account_ref = None
    /\ fact.reference = None
    /\ fact.meta.parser = "generic_fallback"

\* C4: on either channel, when no pattern of the channel matches, a text
\* with a currency-amount token yields the fallback fact and nothing is
\* returned only when there is no such token (a call that raises is C5's
\* matter and is left aside here).
C4_FallbackOnEitherChannel ==
    (outcome.tag \in {"fact", "none"} /\ MatchingPatterns = {}) =>
        /\ HasAmountToken =>
                outcome.tag = "fact" /\ IsFallbackFact(outcome.fact)
        /\ outcome.tag = "none" => ~HasAmountToken

\* C5: extract never raises: every call returns a fact or returns nothing.
C5_ExtractNeverRaises == outcome.tag # "raise"

----------------------------------------------------------------------------
(* Claims about the goal engine *)

\* the relevance predicate, as the specification words it
Relevant(goal) ==
    \/ txn.transaction_type \in goal.categories
    \/ category \in goal.categories
    \/ /\ goal.goal_type = "bill_payment"
       /\ Contains(Lower(txn.raw_message), <<"reminder">>)
    \/ /\ goal.goal_type = "bill_payment"
       /\ goal.goal_id = "cc-bill"
       /\ Contains(Lower(txn.raw_message), <<"credit", " ", "card">>)

ImpactIndexes == 1..Len(impacts)

\* the impacts recorded for a goal
ImpactsOf(goal) == {k \in ImpactIndexes : impacts[k].goal_id = goal.goal_id}

\* the registry position of the goal an impact names, 0 when there is none
PositionOf(k) ==
    IF \E i \in 1..Len(goals) : goals[i].goal_id = impacts[k].goal_id
    THEN CHOOSE i \in 1..Len(goals) : goals[i].goal_id = impacts[k].goal_id
    ELSE 0

\* C6: every GoalImpact has new_progress within [0.0, 1.0].
C6_ProgressWithinUnitInterval ==
    \A k \in ImpactIndexes :
        /\ FLe(Frac(0, 1), impacts[k].new_progress)
        /\ FLe(impacts[k].new_progress, Frac(1, 1))

\* C7: every GoalImpact has impact_score within [-1.0, +1.0].
C7_ScoreWithinBounds ==
    \A k \in ImpactIndexes :
        /\ FLe(Frac(-1, 1), impacts[k].impact_score)
        /\ FLe(impacts[k].impact_score, Frac(1, 1))

\* a credit of 1,000,000.00 scored at the cap on the savings goal
C7_Witness ==
    /\ txn.amount = 100000000 /\ txn.transaction_type = "credit"
    /\ \E k \in ImpactIndexes :
        /\ impacts[k].goal_id = "demo-savings"
        /\ impacts[k].impact_score = Frac(8, 10)

\* C8: a GoalImpact is recorded for a goal only if the relevance predicate
\* holds of it; for a goal of which it fails there is no record at all.
C8_ImpactOnlyIfRelevant ==
    /\ \A k \in ImpactIndexes : PositionOf(k) # 0
    /\ \A i \in 1..Len(goals) :
        ~Relevant(goals[i]) => ImpactsOf(goals[i]) = {}

\* the demo registry evaluated with one goal relevant and recorded and the
\* two others irrelevant and absent
C8_Witness ==
    /\ evaluated
    /\ goals = DemoGoals
    /\ Len(impacts) = 1
    /\ Cardinality({i \in 1..Len(goals) : ~Relevant(goals[i])}) = 2

\* C9: the impacts name goals of the registry at strictly increasing
\* registry positions (registry order, at most one impact per goal); the
\* goals they name are active and are not of type budget or investment.
C9_RegistryOrderActiveOnly ==
    /\ \A k \in ImpactIndexes :
        /\ PositionOf(k) # 0
        /\ goals[PositionOf(k)].is_active
        /\ goals[PositionOf(k)].goal_type \notin {"budget", "investment"}
    /\ \A k, l \in ImpactIndexes : k < l => PositionOf(k) < PositionOf(l)

\* two impacts in registry order, with a relevant inactive goal and a
\* relevant budget goal left out
C9_Witness ==
    /\ evaluated
    /\ Len(impacts) = 2
    /\ \E i \in 1..Len(goals) : Relevant(goals[i]) /\ ~goals[i].is_active
    /\ \E i \in 1..Len(goals) :
        Relevant(goals[i]) /\ goals[i].is_active
            /\ goals[i].goal_type = "budget"

TextHasReminder == Contains(Lower(txn.raw_message), <<"reminder">>)

WarningSuffix == " - Due date is approaching!"

\* what the claim says of the impact on a relevant bill_payment goal
BillImpactAsClaimed(goal, impact) ==
    LET remaining ==
            IF goal.target_amount + impact.impact_amount > 0
            THEN goal.target_amount + impact.impact_amount ELSE 0
        progress == Frac(goal.target_amount - remaining, goal.target_amount)
        at_risk == /\ goal.deadline.some
                   /\ DaysBetween(goal.deadline.v, now) <= 5
                   /\ FLt(progress, Frac(8, 10))
    IN /\ TextHasReminder =>
            /\ impact.impact_score = Frac(-9, 10)
            /\ impact.impact_amount = txn.amount
       /\ (/\ ~TextHasReminder /\ txn.transaction_type = "credit"
           /\ goal.goal_id = "cc-bill") =>
            /\ impact.impact_score = Frac(8, 10)
            /\ impact.impact_amount = -txn.amount
       /\ FEq(impact.new_progress, progress)
       /\ impact.is_goal_achieved <=> FLe(Frac(1, 1), progress)
       /\ Truthy(impact.is_goal_at_risk) <=> at_risk
       /\ at_risk <=>
            /\ impact.message # <<>>
            /\ impact.message[Len(impact.message)] = WarningSuffix

\* C10: a relevant bill_payment goal gets score -0.9 and amount +amount when
\* the text holds "reminder", whatever the kind, and otherwise +0.8 and
\* -amount for a credit against cc-bill; progress, achieved, at-risk and the
\* warning suffix are as the claim states them.
C10_BillPaymentImpact ==
    evaluated =>
        \A i \in 1..Len(goals) :
            (/\ goals[i].is_active /\ goals[i].goal_type = "bill_payment"
             /\ Relevant(goals[i])) =>
                /\ Cardinality(ImpactsOf(goals[i])) = 1
                /\ \A k \in ImpactsOf(goals[i]) :
                        BillImpactAsClaimed(goals[i], impacts[k])

\* a credit whose text holds "reminder", scored as a reminder on cc-bill,
\* at risk and carrying the warning suffix
C10_Witness ==
    /\ txn.transaction_type = "credit" /\ TextHasReminder
    /\ goals = <<DemoBill>>
    /\ \E k \in ImpactIndexes :
        /\ impacts[k].impact_score = Frac(-9, 10)
        /\ impacts[k].impact_amount = txn.amount
        /\ Truthy(impacts[k].is_goal_at_risk)
        /\ impacts[k].message[Len(impacts[k].message)] = WarningSuffix

\* what the claim says of the impact of a debit on a spending_limit goal
BudgetImpactAsClaimed(goal, impact) ==
    LET spent_ratio == Frac(goal.current_amount + txn.amount,
                            goal.target_amount)
    IN /\ impact.impact_amount = txn.amount
       /\ impact.impact_score =
            IF FLt(Frac(1, 1), spent_ratio) THEN Frac(-1, 1)
            ELSE IF FLt(Frac(8, 10), spent_ratio) THEN Frac(-7, 10)
            ELSE Frac(-3, 10)
       /\ FLt(impact.impact_score, Frac(0, 1))
       /\ FEq(impact.new_progress, FMin(Frac(1, 1), spent_ratio))
       /\ ~impact.is_goal_achieved
       /\ Truthy(impact.is_goal_at_risk) <=> FLt(Frac(9, 10), spent_ratio)

\* C11: a relevant spending_limit goal gets no impact from a fact that is
\* not a debit; from a debit it gets one impact with impact_amount = amount,
\* score -1.0, -0.7 or -0.3 by spent_ratio > 1.0, > 0.8 or neither,
\* new_progress = min(1, spent_ratio), never achieved, and at risk iff
\* spent_ratio > 0.9.
C11_SpendingLimitImpact ==
    evaluated =>
        \A i \in 1..Len(goals) :
            (/\ goals[i].is_active /\ goals[i].goal_type = "spending_limit"
             /\ Relevant(goals[i])) =>
                IF txn.transaction_type # "debit"
                THEN ImpactsOf(goals[i]) = {}
                ELSE /\ Cardinality(ImpactsOf(goals[i])) = 1
                     /\ \A k \in ImpactsOf(goals[i]) :
                            BudgetImpactAsClaimed(goals[i], impacts[k])

\* a debit that takes the budget exactly to its limit: spent_ratio is 1.0,
\* which is not above 1.0, so the score is -0.7 and the goal is at risk
C11_Witness ==
    /\ txn.transaction_type = "debit"
    /\ \E i \in 1..Len(goals) :
        /\ goals[i].goal_type = "spending_limit"
        /\ goals[i].current_amount + txn.amount = goals[i].target_amount
        /\ \E k \in ImpactsOf(goals[i]) :
            /\ impacts[k].impact_score = Frac(-7, 10)
            /\ Truthy(impacts[k].is_goal_at_risk)
            /\ FEq(impacts[k].new_progress, Frac(1, 1))

\* what the claim says of the impact on a savings goal
SavingsImpactAsClaimed(goal, impact) ==
    LET capped == FMin(Frac(8, 10), Frac(txn.amount, 5000 * 100))
        capped_debit == FMin(Frac(6, 10), Frac(txn.amount, 5000 * 100))
        ratio == Frac(goal.current_amount + impact.impact_amount,
                      goal.target_amount)
        progress == IF FLt(ratio, Frac(0, 1)) THEN Frac(0, 1)
                    ELSE IF FLt(Frac(1, 1), ratio) THEN Frac(1, 1)
                    ELSE ratio
        at_risk == /\ goal.deadline.some
                   /\ DaysBetween(goal.deadline.v, now) < 30
                   /\ FLt(progress, Frac(5, 10))
    IN /\ txn.transaction_type = "credit" =>
            /\ impact.impact_amount = txn.amount
            /\ FEq(impact.impact_score, capped)
       /\ txn.transaction_type = "debit" =>
            /\ impact.impact_amount = -txn.amount
            /\ FEq(impact.impact_score, FNeg(capped_debit))
       /\ FEq(impact.new_progress, progress)
       /\ impact.is_goal_achieved <=> FLe(Frac(1, 1), progress)
       /\ Truthy(impact.is_goal_at_risk) <=> at_risk

\* C12: a relevant savings goal gets one impact: +amount and
\* min(0.8, amount/5000) for a credit, -amount and -min(0.6, amount/5000)
\* for a debit; new_progress is (current_amount + impact_amount) /
\* target_amount clamped to [0, 1]; achieved iff new_progress >= 1.0; at
\* risk iff there is a deadline, fewer than 30 days remain and
\* new_progress < 0.5.
C12_SavingsImpact ==
    evaluated =>
        \A i \in 1..Len(goals) :
            (/\ goals[i].is_active /\ goals[i].goal_type = "savings"
             /\ Relevant(goals[i])) =>
                /\ Cardinality(ImpactsOf(goals[i])) = 1
                /\ \A k \in ImpactsOf(goals[i]) :
                        SavingsImpactAsClaimed(goals[i], impacts[k])

\* a debit of 12,450.00 scored -0.6 on the savings goal, 29 days before
\* its deadline and below half of the target: at risk
C12_Witness ==
    /\ txn.transaction_type = "debit" /\ txn.amount = 1245000
    /\ \E i \in 1..Len(goals) :
        /\ goals[i].goal_type = "savings"
        /\ goals[i].deadline.some
        /\ DaysBetween(goals[i].deadline.v, now) = 29
        /\ \E k \in ImpactsOf(goals[i]) :
            /\ impacts[k].impact_score = Frac(-6, 10)
            /\ impacts[k].impact_amount = -1245000
            /\ Truthy(impacts[k].is_goal_at_risk)

----------------------------------------------------------------------------
(* Claims about the classifier *)

\* the merchant of the classified fact in lower case, empty when unset
MerchantText ==
    Lower(IF parsed_txn.merchant.some THEN parsed_txn.merchant.v ELSE <<>>)

RawText == Lower(parsed_txn.raw_message)

ShoppingMerchant ==
    AnyKeyword(MerchantText, {"amazon", "flipkart", "myntra", "mall"})
UtilitiesMerchant ==
    AnyKeyword(MerchantText, {"mseb", "electricity", "gas", "water"})
EntertainmentMerchant ==
    AnyKeyword(MerchantText, {"netflix", "spotify", "prime", "cinema"})
TransferText == HasKeyword(RawText, "upi") \/ HasKeyword(RawText, "neft")

\* the decision list as the claim words it: <<category, confidence>>
ClaimedDecision ==
    CASE ShoppingMerchant -> <<"shopping", Frac(9, 10)>>
      [] ~ShoppingMerchant /\ UtilitiesMerchant ->
            <<"utilities", Frac(95, 100)>>
      [] ~ShoppingMerchant /\ ~UtilitiesMerchant /\ EntertainmentMerchant ->
            <<"entertainment", Frac(9, 10)>>
      [] OTHER ->
            IF parsed_txn.transaction_type = "bill"
            THEN <<"bills", Frac(85, 100)>>
            ELSE IF TransferText THEN <<"transfer", Frac(8, 10)>>
            ELSE IF /\ parsed_txn.amount < 100 * 100
                    /\ Contains(RawText, <<"credit", " ", "card">>)
            THEN <<"fee", Frac(75, 100)>>
            ELSE IF /\ parsed_txn.transaction_type = "credit"
                    /\ HasKeyword(RawText, "interest")
            THEN <<"cashback", Frac(9, 10)>>
            ELSE <<"other", Frac(3, 10)>>

\* C13: the category and the confidence of a classification are those of
\* the first branch of the ordered decision list that matches (shopping,
\* utilities, entertainment merchant, kind bill, upi/neft text, small
\* credit-card amount, interest credit, other); a fact whose merchant holds
\* an entertainment keyword, and no shopping or utilities keyword, and whose
\* text holds "upi" is entertainment, not transfer.
C13_RuleOrderFirstMatchWins ==
    classified =>
        /\ classification.category = ClaimedDecision[1]
        /\ FEq(classification.confidence, ClaimedDecision[2])
        /\ (/\ EntertainmentMerchant /\ ~ShoppingMerchant
            /\ ~UtilitiesMerchant /\ HasKeyword(RawText, "upi")) =>
                classification.category = "entertainment"

\* the UPI payment to Netflix classified as entertainment at 0.9
C13_Witness ==
    /\ classified
    /\ parsed_txn.merchant = Some(<<"Netflix">>)
    /\ HasKeyword(RawText, "upi")
    /\ classification.category = "entertainment"
    /\ classification.confidence = Frac(9, 10)

\* the closed category set
ThirteenLabels ==
    {"shopping", "utilities", "food_dining", "transportation",
     "entertainment", "healthcare", "education", "bills", "transfer",
     "investment", "fee", "cashback", "other"}

\* C14: every classification has a category among the thirteen labels and
\* a confidence within [0, 1]; the lowest confidence is 0.3 and it comes
\* with the category other.
C14_ClassifyTotal ==
    classified =>
        /\ classification.category \in ThirteenLabels
        /\ FLe(Frac(0, 1), classification.confidence)
        /\ FLe(classification.confidence, Frac(1, 1))
        /\ FLe(Frac(3, 10), classification.confidence)
        /\ FEq(classification.confidence, Frac(3, 10)) =>
                classification.category = "other"

\* a fallback fact, with merchant, account reference and reference unset,
\* classified as other at 0.3
C14_Witness ==
    /\ classified
    /\ parsed_txn.meta.parser = "generic_fallback"
    /\ parsed_txn.merchant = None /\ parsed_txn.account_ref = None
    /\ parsed_txn.reference = None
    /\ classification.category = "other"
    /\ classification.confidence = Frac(3, 10)

\* the classified fact comes from the card spend template with merchant
\* AMAZON
CardSpendAmazonFact ==
    /\ parsed_txn.channel = "sms"
    /\ parsed_txn.merchant = Some(<<"AMAZON">>)
    /\ Search(CardSpendRegex, parsed_txn.raw_message, TRUE).ok

\* C15 as stated: a card spend fact with merchant AMAZON is classified
\* shopping with confidence >= 0.8 and its subcategory list is empty unless
\* the amount is greater than 2000.
C15_AmazonSubcategoriesEmpty ==
    (classified /\ CardSpendAmazonFact) =>
        /\ classification.category = "shopping"
        /\ FLe(Frac(8, 10), classification.confidence)
        /\ parsed_txn.amount <= 2000 * 100 =>
                classification.subcategories = <<>>

\* C15 amended: a card spend fact with merchant AMAZON is classified
\* shopping with confidence >= 0.8; its subcategory list always holds
\* online_marketplace, preceded by high_value_purchase iff the amount is
\* greater than 2000.
C15_AmazonSubcategories ==
    (classified /\ CardSpendAmazonFact) =>
        /\ classification.category = "shopping"
        /\ FLe(Frac(8, 10), classification.confidence)
        /\ classification.subcategories =
                IF parsed_txn.amount > 2000 * 100
                THEN <<"high_value_purchase", "online_marketplace">>
                ELSE <<"online_marketplace">>

\* the sample card spend of 1,249.00 at AMAZON, tagged online_marketplace
C15_Witness ==
    /\ classified /\ CardSpendAmazonFact
    /\ parsed_txn.amount = 124900
    /\ classification.category = "shopping"
    /\ classification.subcategories = <<"online_marketplace">>

\* the tags the claim gives a fact under a category, in the claimed order
ClaimedSubcategories ==
    CASE classification.category = "shopping" ->
            (IF parsed_txn.amount > 2000 * 100
             THEN <<"high_value_purchase">> ELSE <<>>)
            \o (IF HasKeyword(MerchantText, "amazon")
                THEN <<"online_marketplace">> ELSE <<>>)
      [] classification.category = "utilities" ->
            IF parsed_txn.amount > 1000 * 100
            THEN <<"high_utility_bill">> ELSE <<>>
      [] classification.category = "bills" ->
            <<"recurring_payment">>
            \o (IF HasKeyword(RawText, "due")
                THEN <<"payment_reminder">> ELSE <<>>)
      [] OTHER -> <<>>

\* C16: the subcategory tags come in the order fixed by the category:
\* shopping gives high_value_purchase (iff amount > 2000) before
\* online_marketplace (iff the merchant is the known marketplace, amazon);
\* utilities gives high_utility_bill iff amount > 1000; bills gives
\* recurring_payment, then payment_reminder iff the text holds "due"; any
\* other category gives none.
C16_SubcategoryOrder ==
    classified => classification.subcategories = ClaimedSubcategories

\* a shopping fact above 2000 at the marketplace, with both tags in order
C16_Witness ==
    /\ classified
    /\ classification.category = "shopping"
    /\ classification.subcategories =
            <<"high_value_purchase", "online_marketplace">>

\* C17: a constructed predictor that holds no model has its loaded flag
\* false, with or without a model path and whether or not the load raised,
\* and what it predicts is the rule variant's result.
C17_PredictorDegradesToRules ==
    constructed =>
        /\ ~tflite_interface.model.some => ~tflite_interface.is_model_loaded
        /\ (classified /\ ~tflite_interface.is_model_loaded) =>
                LET rule == RuleBasedPredict(ExtractFeatures(parsed_txn))
                IN /\ classification.category = rule.category
                   /\ classification.confidence = rule.confidence

\* a predictor constructed with a model path, not loaded, classifying by
\* the rules
C17_Witness ==
    /\ constructed /\ classified
    /\ tflite_interface.model_path.some
    /\ ~tflite_interface.is_model_loaded
    /\ classification.category = "utilities"

----------------------------------------------------------------------------
(* Claims about the service *)

\* the predictor as TransactionClassifier() constructs it
FreshInterface == TFLiteInterfaceInit(None, FALSE)

\* the single messages answered with a ProcessedTransaction
SingleAnswers ==
    {k \in 1..Len(responses) :
        /\ responses[k].endpoint = "process-message"
        /\ responses[k].status = 200}

\* the fact a single message was parsed into
FactOf(r) == ParserParseMessage(r.request.message, r.request.channel).fact

\* C18: after any sequence of requests the goal registry and the predictor
\* are as constructed, every classification and impact list a request
\* worked out is the one a fresh classifier and the constructed registry
\* give for the same fact at the same clock reading, and two requests with
\* the same message agree on both.
C18_NoHiddenState ==
    /\ goals = DemoGoals
    /\ tflite_interface = FreshInterface
    /\ \A k \in SingleAnswers :
            LET r == responses[k]
                fresh == ClassifyTransaction(FreshInterface, FactOf(r))
            IN /\ r.classification = fresh
               /\ r.goal_impacts =
                    CalculateTransactionImpact(FactOf(r), fresh.category,
                                               DemoGoals, r.now)
    /\ \A j \in SingleAnswers, k \in SingleAnswers :
            (/\ responses[j].request.message = responses[k].request.message
             /\ responses[j].request.channel = responses[k].request.channel)
            => /\ responses[j].classification = responses[k].classification
               /\ responses[j].goal_impacts = responses[k].goal_impacts

\* the same message answered twice, each time with an impact on a goal
C18_Witness ==
    /\ Len(responses) = 2
    /\ SingleAnswers = {1, 2}
    /\ responses[1].request.message = responses[2].request.message
    /\ responses[1].goal_impacts # <<>>
    /\ responses[2].goal_impacts = responses[1].goal_impacts
    /\ responses[2].classification.category = "shopping"

\* the bulk requests whose data file exists and is of a known type
BulkAnswers ==
    {k \in 1..Len(responses) :
        /\ responses[k].endpoint = "process-bulk"
        /\ responses[k].request.file.some
        /\ responses[k].request.file_type \in {"sms", "email"}}

\* what parse_message does with line i of a bulk request's file
LineOutcome(r, i) ==
    ParserParseMessage(Strip(r.request.file.v[i]), r.request.file_type)

\* the place line i takes among the lines that give a fact
ItemOf(r, i) ==
    Cardinality({j \in 1..i : LineOutcome(r, j).tag = "fact"})

\* line i gives a fact and its storage does not fail
SoundLine(r, i) ==
    /\ Strip(r.request.file.v[i]) # <<>>
    /\ LineOutcome(r, i).tag = "fact"
    /\ ItemOf(r, i) \notin r.request.failing

IsStored(fact) ==
    \E n \in 1..Len(rows) :
        rows[n].hash = GenerateTransactionHash(fact.raw_message)

\* C19: a bulk request over a file in which a line fails at extraction or
\* at storage completes with a result, and every other line that gives a
\* fact is stored.
C19_BulkContinuesPastFailedItem ==
    \A k \in BulkAnswers :
        /\ responses[k].status = 200
        /\ \A i \in 1..Len(responses[k].request.file.v) :
                SoundLine(responses[k], i)
                => IsStored(LineOutcome(responses[k], i).fact)

\* the single messages sent on a channel that is neither sms nor email
InvalidChannelAnswers ==
    {k \in 1..Len(responses) :
        /\ responses[k].endpoint = "process-message"
        /\ responses[k].request.channel \notin {"sms", "email"}}

\* the single messages from which parse_message returns no fact
NoFactAnswers ==
    {k \in 1..Len(responses) :
        /\ responses[k].endpoint = "process-message"
        /\ responses[k].request.channel \in {"sms", "email"}
        /\ ParserParseMessage(responses[k].request.message,
                              responses[k].request.channel).tag = "none"}

\* C20: a message without a fact is answered 422 and an invalid channel
\* 400, neither of them 500, and neither stores a row.
C20_UnparseableIsNotSystemError ==
    /\ \A k \in NoFactAnswers :
            responses[k].status = 422 /\ responses[k].stored = 0
    /\ \A k \in InvalidChannelAnswers :
            responses[k].status = 400 /\ responses[k].stored = 0

----------------------------------------------------------------------------
(* Claims about the fields and the timestamp of a fact *)

\* the capture groups of the lowest matching pattern
LowestMatchGroups ==
    Groups(Search(ChannelPatterns[LowestMatching].regex, Strip(text), TRUE),
           Strip(text))

\* the position at which the matched pattern declares a field, 0 when it
\* does not declare it
DeclaredAt(target) ==
    LET fields == ChannelPatterns[LowestMatching].fields
    IN IF \E i \in 1..Len(fields) : fields[i] = target
       THEN CHOOSE i \in 1..Len(fields) : fields[i] = target
       ELSE 0

\* an optional field as the claim has it: the capture at the declared
\* position, unset when the pattern does not declare the field
ClaimedField(target) ==
    IF DeclaredAt(target) # 0
    THEN Some(LowestMatchGroups[DeclaredAt(target)])
    ELSE None

\* C21: a fact extracted by a pattern of either channel has its account
\* reference, merchant and reference code set iff the pattern declares the
\* field, and then to the capture at the declared position.
C21_OptionalFieldsAsDeclared ==
    (outcome.tag = "fact" /\ MatchingPatterns # {}) =>
        /\ outcome.fact.account_ref = ClaimedField(<<"account", "_", "ref">>)
        /\ outcome.fact.merchant = ClaimedField(<<"merchant">>)
        /\ outcome.fact.reference = ClaimedField(<<"reference">>)

\* the matched pattern declares both a date and a time field
DeclaresDateAndTime ==
    DeclaredAt(<<"date">>) # 0 /\ DeclaredAt(<<"time">>) # 0

\* the number of days of a month of the Gregorian calendar
MonthLength(year, month) ==
    IF month = 2
    THEN (IF year % 400 = 0 \/ (year % 4 = 0 /\ year % 100 # 0)
          THEN 29 ELSE 28)
    ELSE IF month \in {4, 6, 9, 11} THEN 30 ELSE 31

\* the timestamp the claim gives the fact: the captured DD-MM-YYYY and HHMM
\* when the pattern declares both and they form an instant, the current
\* instant otherwise
ClaimedTimestamp ==
    IF ~DeclaresDateAndTime THEN NowStamp
    ELSE LET date_str == LowestMatchGroups[DeclaredAt(<<"date">>)]
             time_str == LowestMatchGroups[DeclaredAt(<<"time">>)]
             day == DigitsValue(SubSeq(date_str, 1, 2))
             month == DigitsValue(SubSeq(date_str, 4, 5))
             year == DigitsValue(SubSeq(date_str, 7, 10))
             hour == DigitsValue(SubSeq(time_str, 1, 2))
             minute == DigitsValue(SubSeq(time_str, 3, 4))
         IN IF /\ year >= 1 /\ month >= 1 /\ month <= 12
               /\ day >= 1 /\ day <= MonthLength(year, month)
               /\ hour <= 23 /\ minute <= 59
            THEN [parsed |-> TRUE, year |-> year, month |-> month,
                  day |-> day, hour |-> hour, minute |-> minute]
            ELSE NowStamp

\* C22: whenever a pattern matches and its amount reads as a number, a fact
\* is returned whatever the captured date and time are; its timestamp is
\* the composed date and time when the pattern declares both and they form
\* a valid instant, and the current instant otherwise.
C22_TimestampNeverFailsExtraction ==
    (/\ outcome.tag # "pending"
     /\ MatchingPatterns # {}
     /\ ParseFloat(Remove(LowestMatchAmountGroup, ",")).ok) =>
        /\ outcome.tag = "fact"
        /\ outcome.fact.timestamp = ClaimedTimestamp

\* a fact whose pattern declares date and time, captured with month 13 or
\* hour 25, returned with the current instant
C22_Witness ==
    /\ outcome.tag = "fact"
    /\ MatchingPatterns # {}
    /\ DeclaresDateAndTime
    /\ \/ SubSeq(LowestMatchGroups[DeclaredAt(<<"date">>)], 4, 5)
            = <<"1", "3">>
       \/ SubSeq(LowestMatchGroups[DeclaredAt(<<"time">>)], 1, 2)
            = <<"2", "5">>
    /\ outcome.fact.timestamp = NowStamp

----------------------------------------------------------------------------
(* Claims about the feature map *)

\* the amount features of the map the call built
AmountFeatures == feature_map.amount_patterns

\* C23: the amount bucket of the feature map is micro iff amount < 100,
\* small iff 100 <= amount < 1000, medium iff 1000 <= amount < 5000 and
\* large iff amount >= 5000, and an amount of 5000 or more sets the large
\* transaction flag.
C23_AmountBucketPartition ==
    classified =>
        /\ AmountFeatures.amount_bucket = "micro"
                <=> parsed_txn.amount < 10000
        /\ AmountFeatures.amount_bucket = "small"
                <=> (10000 <= parsed_txn.amount /\ parsed_txn.amount < 100000)
        /\ AmountFeatures.amount_bucket = "medium"
                <=> (100000 <= parsed_txn.amount
                        /\ parsed_txn.amount < 500000)
        /\ AmountFeatures.amount_bucket = "large"
                <=> parsed_txn.amount >= 500000
        /\ parsed_txn.amount >= 500000
                => AmountFeatures.is_large_transaction

\* an amount of exactly 100, in the small bucket
C23_Witness ==
    /\ classified
    /\ parsed_txn.amount = 10000
    /\ AmountFeatures.amount_bucket = "small"

\* C27: each of the four amount flags of the feature map is true iff the
\* amount bucket is the one of its name.
C27_FlagsAgreeWithBucket ==
    classified =>
        /\ AmountFeatures.is_micro_transaction
                <=> AmountFeatures.amount_bucket = "micro"
        /\ AmountFeatures.is_small_transaction
                <=> AmountFeatures.amount_bucket = "small"
        /\ AmountFeatures.is_medium_transaction
                <=> AmountFeatures.amount_bucket = "medium"
        /\ AmountFeatures.is_large_transaction
                <=> AmountFeatures.amount_bucket = "large"

----------------------------------------------------------------------------
(* Further claims about the goal engine *)

\* the impacts emitted for a bill_payment goal
BillImpacts ==
    {k \in ImpactIndexes :
        \E i \in 1..Len(goals) :
            /\ goals[i].goal_id = impacts[k].goal_id
            /\ goals[i].goal_type = "bill_payment"}

\* the message of an impact without the warning suffix
BaseMessage(impact) ==
    IF impact.message # <<>>
            /\ impact.message[Len(impact.message)] = WarningSuffix
    THEN SubSeq(impact.message, 1, Len(impact.message) - 1)
    ELSE impact.message

\* C24: every impact emitted for a bill_payment goal has the score -0.9 or
\* +0.8 and a base message that is not empty; none has score 0, amount 0
\* and an empty base message.
C24_BillImpactIsScored ==
    evaluated =>
        \A k \in BillImpacts :
            /\ impacts[k].impact_score \in {Frac(-9, 10), Frac(8, 10)}
            /\ BaseMessage(impacts[k]) # <<>>

----------------------------------------------------------------------------
(* Further claims about the service *)

StoredRowsOf(r) ==
    {n \in 1..Len(rows) :
        rows[n].hash = GenerateTransactionHash(FactOf(r).raw_message)}

\* C26: when a raw message already stored is submitted again, under the
\* same or another user id, nothing is inserted, the id answered is the id
\* of the first submission, and the one row stored for the message keeps
\* the id and the user id the first submission wrote.
C26_ResubmissionLeavesTheRow ==
    \A j, k \in SingleAnswers :
        (j < k /\ responses[j].request.message = responses[k].request.message)
        => /\ responses[k].stored = 0
           /\ responses[k].body.transaction_id =
                responses[j].body.transaction_id
           /\ Cardinality(StoredRowsOf(responses[k])) = 1
           /\ responses[j].stored = 1 =>
                \A n \in StoredRowsOf(responses[k]) :
                    /\ rows[n].id = responses[j].body.transaction_id
                    /\ rows[n].userid = responses[j].request.user_id

\* a message stored for one user and submitted again by another
C26_Witness ==
    /\ Len(responses) = 2
    /\ SingleAnswers = {1, 2}
    /\ responses[1].request.message = responses[2].request.message
    /\ responses[1].request.user_id = "demo-user"
    /\ responses[2].request.user_id = "other-user"
    /\ responses[1].stored = 1
    /\ Len(rows) = 1 /\ rows[1].userid = "demo-user"

----------------------------------------------------------------------------
(* Claims about classification followed by goal evaluation *)

\* the impacts the default registry gives the classified fact at a clock
\* reading
PipelineImpacts(instant) ==
    CalculateTransactionImpact(parsed_txn, classification.category,
                               DemoGoals, instant)

\* the impacts among them on the savings goal
SavingsImpacts(instant) ==
    {i \in 1..Len(PipelineImpacts(instant)) :
        PipelineImpacts(instant)[i].goal_id = "demo-savings"}

\* C28: with the default registry, every impact on the savings goal worked
\* out for a classified fact comes from a credit: its impact_amount is the
\* amount, its score lies in [0, 0.8] and its message is not empty; no fact
\* reaches the debit branch.
C28_SavingsImpactsComeFromCredits ==
    classified =>
        \A instant \in ServiceInstants : \A i \in SavingsImpacts(instant) :
            LET impact == PipelineImpacts(instant)[i]
            IN /\ parsed_txn.transaction_type = "credit"
               /\ impact.impact_amount = parsed_txn.amount
               /\ FLe(Frac(0, 1), impact.impact_score)
               /\ FLe(impact.impact_score, Frac(8, 10))
               /\ BaseMessage(impact) # <<>>

\* an interest credit taken from an email, predicted by the rules as
\* cashback, with its impact on the savings goal
C28_Witness ==
    /\ classified
    /\ ~tflite_interface.is_model_loaded
    /\ parsed_txn.channel = "email"
    /\ parsed_txn.transaction_type = "credit"
    /\ classification.category = "cashback"
    /\ \E instant \in ServiceInstants : \E i \in SavingsImpacts(instant) :
            FLt(Frac(0, 1), PipelineImpacts(instant)[i].impact_score)

====
